---- MODULE Spec2Model ----
(***************************************************************************)
(* envlock: the recipient registry (feature/recipients), the enrollment    *)
(* invite / request state machine (feature/enroll) and the CLI commands    *)
(* that sequence them through the remote metadata store (core/remote);     *)
(* and the login store of the server (core/auth).                          *)
(*                                                                         *)
(* Strings that the code trims or compares ignoring case are sequences of *)
(* one-character strings, so TrimSpace and EqualFold are computed.         *)
(* Status and source fields, which the code only compares with constants, *)
(* are TLA+ strings.  time.Time is a natural number, 0 the zero time.      *)
(***************************************************************************)
EXTENDS Integers, Sequences, FiniteSets, TLC

VARIABLES
    reg,        \* an in-memory recipients.Store driven directly (Add/Revoke/Delete)
    regOp,      \* the last call on reg: its name and the error it returned
    recipients, \* remote object _envlock/recipients.json (the zero Store when absent)
    invites,    \* remote objects _envlock/enroll/invites/<id>.json
    requests,   \* remote objects _envlock/enroll/requests/<id>.json
    issued,     \* invite tokens printed by `enroll invite`
    now,        \* the wall clock read by time.Now()
    proc,       \* one CLI invocation per process: position and locals
    last,       \* the command that returned last: its error and locals
    acked,      \* the registry commands that returned without error
    call,       \* a function of feature/enroll applied on its own: inputs and result
    mem,        \* the auth.MemoryStore of the server: its four maps
    memOp,      \* the last call on mem: its arguments, error and result
    memLog      \* what mem has handed out: pending logins, codes and tokens

regVars == <<reg, regOp>>
authVars == <<mem, memOp, memLog>>
storeVars == <<recipients, invites, requests>>
auxVars == <<acked, call>>
protoVars == <<recipients, invites, requests, issued, now, proc, last, acked, call>>
vars == <<reg, regOp, recipients, invites, requests, issued, now, proc, last, acked, call,
          mem, memOp, memLog>>

----------------------------------------------------------------------------
(* Bounds of the model *)

MaxTime == 3
MaxTTL == 1
MaxInvites == 2
MaxRequests == 2
MaxExisting == 2

ZeroTime == 0
Times == 1..MaxTime

----------------------------------------------------------------------------
(* strings.TrimSpace and strings.EqualFold on character sequences *)

IsSpace(c) == c = " "

RECURSIVE TrimLeft(_)
TrimLeft(s) ==
    IF s = <<>> THEN <<>>
    ELSE IF IsSpace(Head(s)) THEN TrimLeft(Tail(s)) ELSE s

RECURSIVE TrimRight(_)
TrimRight(s) ==
    IF s = <<>> THEN <<>>
    ELSE IF IsSpace(s[Len(s)]) THEN TrimRight(SubSeq(s, 1, Len(s) - 1)) ELSE s

TrimSpace(s) == TrimRight(TrimLeft(s))

LowerChar(c) ==
    CASE c = "A" -> "a"
      [] c = "B" -> "b"
      [] c = "F" -> "f"
      [] c = "K" -> "k"
      [] OTHER -> c

Fold(s) == [i \in 1..Len(s) |-> LowerChar(s[i])]

EqualFold(a, b) == Fold(a) = Fold(b)

(* the strings the commands are given *)
sEmpty == <<>>
sBob == <<"b", "o", "b">>
sBOB == <<"B", "o", "b">>
sAmy == <<" ", "a", "m", "y">>
sF1 == <<"f", "1">>
sF1U == <<"F", "1">>
sF2 == <<"f", "2", " ">>
sK1 == <<"k", "1">>
sK2 == <<"k", "2">>
sK2Pad == <<" ", "k", "2">>
sNote == <<" ", "o", "k">>
sK3 == <<"k", "3">>

----------------------------------------------------------------------------
(* feature/recipients: Store, Add, Revoke, Delete, findIndex *)

StatusActive == "active"
StatusRevoked == "revoked"

ErrNil == "nil"
ErrDuplicateRecipient == "duplicate recipient"
ErrRecipientNotFound == "recipient not found"
ErrNameRequired == "recipient name is required"
ErrKeyRequired == "recipient public key is required"

Recipient(name, pub, fp, created, status, source, note) ==
    [name |-> name, public_key |-> pub, fingerprint |-> fp, created_at |-> created,
     status |-> status, source |-> source, note |-> note]

(* the zero value Recipient{} *)
NoRecipient == Recipient(<<>>, <<>>, <<>>, ZeroTime, "", "", <<>>)

EmptyStore == [version |-> 1, recipients |-> <<>>]

ActiveCount(s) ==
    Cardinality({i \in 1..Len(s.recipients) : s.recipients[i].status = StatusActive})

(* the normalisation at the head of Add *)
Normalize(r, t) ==
    [r EXCEPT !.name = TrimSpace(@),
              !.public_key = TrimSpace(@),
              !.fingerprint = TrimSpace(@),
              !.created_at = IF @ = ZeroTime THEN t ELSE @,
              !.status = IF @ = "" THEN StatusActive ELSE @]

(* a duplicate test that compares names only *)
CollidesOnName(existing, r) == EqualFold(existing.name, r.name)

(* the duplicate test of Add's loop body, for one existing entry *)
Collides(existing, r) ==
    \/ EqualFold(existing.name, r.name)
    \/ existing.public_key = r.public_key
    \/ existing.fingerprint = r.fingerprint
(* an Add that makes a revoked entry of the same name active again *)
AddReactivating(s, r, t) ==
    LET n == Normalize(r, t)
        old == {i \in 1..Len(s.recipients) :
                   /\ EqualFold(s.recipients[i].name, n.name)
                   /\ s.recipients[i].status = StatusRevoked}
    IN
    IF n.name = <<>> THEN [store |-> s, err |-> ErrNameRequired]
    ELSE IF n.public_key = <<>> THEN [store |-> s, err |-> ErrKeyRequired]
    ELSE IF old # {}
         THEN [store |-> [s EXCEPT !.recipients =
                             [i \in 1..Len(@) |->
                                 IF i \in old THEN [@[i] EXCEPT !.status = StatusActive]
                                 ELSE @[i]]],
               err |-> ErrNil]
    ELSE IF \E i \in 1..Len(s.recipients) : Collides(s.recipients[i], n)
         THEN [store |-> s, err |-> ErrDuplicateRecipient]
    ELSE [store |-> [s EXCEPT !.recipients = Append(@, n)], err |-> ErrNil]

(* Add at time t: the Store after the call and the returned error *)
Add(s, r, t) ==
    LET n == Normalize(r, t) IN
    IF n.name = <<>> THEN [store |-> s, err |-> ErrNameRequired]
    ELSE IF n.public_key = <<>> THEN [store |-> s, err |-> ErrKeyRequired]
    ELSE IF \E i \in 1..Len(s.recipients) : Collides(s.recipients[i], n)
         THEN [store |-> s, err |-> ErrDuplicateRecipient]
    ELSE [store |-> [s EXCEPT !.recipients = Append(@, n)], err |-> ErrNil]
(* a lookup that compares the query with the public key as well *)
findIndexAnyField(s, query) ==
    LET q == TrimSpace(query)
        hits == {i \in 1..Len(s.recipients) :
                    \/ EqualFold(s.recipients[i].name, q)
                    \/ EqualFold(s.recipients[i].fingerprint, q)
                    \/ EqualFold(s.recipients[i].public_key, q)}
    IN IF hits = {} THEN 0 ELSE CHOOSE i \in hits : \A j \in hits : i <= j
(* a lookup that returns the last entry that matches *)
findIndexLast(s, query) ==
    LET q == TrimSpace(query)
        hits == {i \in 1..Len(s.recipients) :
                    \/ EqualFold(s.recipients[i].name, q)
                    \/ EqualFold(s.recipients[i].fingerprint, q)}
    IN IF hits = {} THEN 0 ELSE CHOOSE i \in hits : \A j \in hits : i >= j

(* findIndex: 0 stands for the code's -1, indices are 1-based *)
findIndex(s, query) ==
    LET q == TrimSpace(query)
        hits == {i \in 1..Len(s.recipients) :
                    \/ EqualFold(s.recipients[i].name, q)
                    \/ EqualFold(s.recipients[i].fingerprint, q)}
    IN IF hits = {} THEN 0 ELSE CHOOSE i \in hits : \A j \in hits : i <= j
(* a Revoke that refuses an entry that is revoked already *)
RevokeActiveOnly(s, query) ==
    LET idx == findIndex(s, query) IN
    IF idx = 0 \/ s.recipients[IF idx = 0 THEN 1 ELSE idx].status = StatusRevoked
    THEN [store |-> s, err |-> ErrRecipientNotFound, ret |-> NoRecipient]
    ELSE LET s2 == [s EXCEPT !.recipients[idx].status = StatusRevoked]
         IN [store |-> s2, err |-> ErrNil, ret |-> s2.recipients[idx]]

Revoke(s, query) ==
    LET idx == findIndex(s, query) IN
    IF idx = 0 THEN [store |-> s, err |-> ErrRecipientNotFound, ret |-> NoRecipient]
    ELSE LET s2 == [s EXCEPT !.recipients[idx].status = StatusRevoked]
         IN [store |-> s2, err |-> ErrNil, ret |-> s2.recipients[idx]]
(* A Delete that marks the entry revoked where the code removes it.       *)
DeleteRevoking(s, query) ==
    LET idx == findIndex(s, query) IN
    IF idx = 0 THEN [store |-> s, err |-> ErrRecipientNotFound, ret |-> NoRecipient]
    ELSE LET s2 == [s EXCEPT !.recipients[idx].status = StatusRevoked]
         IN [store |-> s2, err |-> ErrNil, ret |-> s.recipients[idx]]

Delete(s, query) ==
    LET idx == findIndex(s, query) IN
    IF idx = 0 THEN [store |-> s, err |-> ErrRecipientNotFound, ret |-> NoRecipient]
    ELSE [store |-> [s EXCEPT !.recipients =
                        SubSeq(@, 1, idx - 1) \o SubSeq(@, idx + 1, Len(@))],
          err |-> ErrNil, ret |-> s.recipients[idx]]

----------------------------------------------------------------------------
(* The registry driven directly: every sequence of Add, Revoke and Delete *)
(* calls on a Store that starts empty.                                     *)
(* core/auth: MemoryStore, the pending logins, login codes and tokens of  *)
(* the CLI login.  A Go map is a function on the keys it holds.  Every    *)
(* method takes s.mu before it reads a map and holds it until it returns, *)
(* so a call is one step; the ttl tests come before the lock and leave    *)
(* the store as it was.  One tick of the clock is five minutes.           *)

MaxLogins == 2
MaxCodes == 2
MaxGrants == 2

CodeGrace == 1

ErrPendingLoginNotFound == "pending login not found"
ErrPendingLoginExpired == "pending login expired"
ErrInvalidCode == "invalid login code"
ErrCodeExpired == "login code expired"
ErrTokenNotFound == "access token not found"
ErrTokenExpired == "access token expired"
ErrLoginTTL == "ttl must be > 0"
ErrTokenTTL == "token ttl must be > 0"

NoUser == [id |-> <<>>, email |-> <<>>, display_name |-> <<>>]
DevUser == [id |-> <<"dev:user">>, email |-> <<"dev@example.com">>,
            display_name |-> <<"dev@example.com">>]

(* a nil *time.Time is the empty sequence, a set one is <<t>> *)
NilTime == <<>>

NoPendingCLILogin ==
    [state |-> <<>>, callback_url |-> <<>>, created_at |-> ZeroTime, expires_at |-> ZeroTime]
NoCLILoginCode ==
    [code |-> <<>>, state |-> <<>>, user |-> NoUser, created_at |-> ZeroTime,
     expires_at |-> ZeroTime, used_at |-> NilTime]
NoAccessToken ==
    [token |-> <<>>, user |-> NoUser, created_at |-> ZeroTime, expires_at |-> ZeroTime,
     refresh_token |-> <<>>]

EmptyMap == [k \in {} |-> k]
MapPut(m, k, v) == [x \in DOMAIN m \cup {k} |-> IF x = k THEN v ELSE m[x]]
MapDelete(m, k) == [x \in DOMAIN m \ {k} |-> m[x]]

NewMemoryStore ==
    [pending |-> EmptyMap, codes |-> EmptyMap, accessTokens |-> EmptyMap,
     refreshTokens |-> EmptyMap]

(* time.Time.After *)
After(t, u) == t > u

(* randomHex and randomToken: the n-th draw, distinct for distinct n; a   *)
(* repeated draw of 8 or more random bytes is not modelled                *)
randomHex(n) == <<"hex", ToString(n)>>
randomToken(prefix, n) == <<prefix>> \o randomHex(n)
LoginCode(n) == <<"envlock-code-">> \o randomHex(n)

(* the items of a map that cleanupLocked keeps: those not past their      *)
(* ExpiresAt plus the grace                                               *)
Unexpired(m, t, grace) ==
    [x \in {k \in DOMAIN m : ~After(t, m[k].expires_at + grace)} |-> m[x]]

cleanupLocked(s, t) ==
    [pending |-> Unexpired(s.pending, t, 0),
     codes |-> Unexpired(s.codes, t, CodeGrace),
     accessTokens |-> Unexpired(s.accessTokens, t, 0),
     refreshTokens |-> Unexpired(s.refreshTokens, t, 0)]

StartCLILogin(s, callbackURL, ttl, t, state) ==
    IF ttl <= 0 THEN [store |-> s, err |-> ErrLoginTTL, out |-> NoPendingCLILogin]
    ELSE LET item == [state |-> state, callback_url |-> callbackURL,
                      created_at |-> t, expires_at |-> t + ttl]
             c == cleanupLocked(s, t)
         IN [store |-> [c EXCEPT !.pending = MapPut(@, state, item)],
             err |-> ErrNil, out |-> item]

GetPendingCLILogin(s, state, t) ==
    LET c == cleanupLocked(s, t) IN
    IF state \notin DOMAIN c.pending
    THEN [store |-> c, err |-> ErrPendingLoginNotFound, out |-> NoPendingCLILogin]
    ELSE IF After(t, c.pending[state].expires_at)
    THEN [store |-> [c EXCEPT !.pending = MapDelete(@, state)],
          err |-> ErrPendingLoginExpired, out |-> NoPendingCLILogin]
    ELSE [store |-> c, err |-> ErrNil, out |-> c.pending[state]]

IssueCodeForState(s, state, user, ttl, t, codeRaw) ==
    IF ttl <= 0 THEN [store |-> s, err |-> ErrLoginTTL, out |-> NoCLILoginCode]
    ELSE LET c == cleanupLocked(s, t) IN
    IF state \notin DOMAIN c.pending
    THEN [store |-> c, err |-> ErrPendingLoginNotFound, out |-> NoCLILoginCode]
    ELSE IF After(t, c.pending[state].expires_at)
    THEN [store |-> [c EXCEPT !.pending = MapDelete(@, state)],
          err |-> ErrPendingLoginExpired, out |-> NoCLILoginCode]
    ELSE LET item == [code |-> LoginCode(codeRaw), state |-> state, user |-> user,
                      created_at |-> t, expires_at |-> t + ttl, used_at |-> NilTime]
         IN [store |-> [c EXCEPT !.codes = MapPut(@, item.code, item)],
             err |-> ErrNil, out |-> item]

(* the tokens ExchangeCode makes from a code, the n-th draws of randomToken *)
MintAccess(item, accessTTL, t, n) ==
    [token |-> randomToken("atk_", n), user |-> item.user, created_at |-> t,
     expires_at |-> t + accessTTL, refresh_token |-> randomToken("rtk_", n)]
MintRefresh(item, refreshTTL, t, n) ==
    [token |-> randomToken("rtk_", n), user |-> item.user, created_at |-> t,
     expires_at |-> t + refreshTTL, refresh_token |-> <<>>]

(* An ExchangeCode that does not mark the code used.                      *)
ExchangeCodeUnmarked(s, code, state, accessTTL, refreshTTL, t, n) ==
    IF accessTTL <= 0 \/ refreshTTL <= 0
    THEN [store |-> s, err |-> ErrTokenTTL, out |-> NoAccessToken]
    ELSE LET c == cleanupLocked(s, t) IN
    IF code \notin DOMAIN c.codes
    THEN [store |-> c, err |-> ErrInvalidCode, out |-> NoAccessToken]
    ELSE LET item == c.codes[code] IN
    IF state # <<>> /\ item.state # <<>> /\ item.state # state
    THEN [store |-> c, err |-> ErrInvalidCode, out |-> NoAccessToken]
    ELSE IF After(t, item.expires_at)
    THEN [store |-> [c EXCEPT !.codes = MapDelete(@, code)],
          err |-> ErrCodeExpired, out |-> NoAccessToken]
    ELSE IF item.used_at # NilTime
    THEN [store |-> c, err |-> ErrInvalidCode, out |-> NoAccessToken]
    ELSE LET out == MintAccess(item, accessTTL, t, n)
         IN [store |-> [c EXCEPT
                          !.accessTokens = MapPut(@, out.token, out),
                          !.refreshTokens = MapPut(@, out.refresh_token,
                                                   MintRefresh(item, refreshTTL, t, n)),
                          !.pending = MapDelete(@, item.state)],
             err |-> ErrNil, out |-> out]

ExchangeCode(s, code, state, accessTTL, refreshTTL, t, n) ==
    IF accessTTL <= 0 \/ refreshTTL <= 0
    THEN [store |-> s, err |-> ErrTokenTTL, out |-> NoAccessToken]
    ELSE LET c == cleanupLocked(s, t) IN
    IF code \notin DOMAIN c.codes
    THEN [store |-> c, err |-> ErrInvalidCode, out |-> NoAccessToken]
    ELSE LET item == c.codes[code] IN
    IF state # <<>> /\ item.state # <<>> /\ item.state # state
    THEN [store |-> c, err |-> ErrInvalidCode, out |-> NoAccessToken]
    ELSE IF After(t, item.expires_at)
    THEN [store |-> [c EXCEPT !.codes = MapDelete(@, code)],
          err |-> ErrCodeExpired, out |-> NoAccessToken]
    ELSE IF item.used_at # NilTime
    THEN [store |-> c, err |-> ErrInvalidCode, out |-> NoAccessToken]
    ELSE LET out == MintAccess(item, accessTTL, t, n)
         IN [store |-> [c EXCEPT
                          !.accessTokens = MapPut(@, out.token, out),
                          !.refreshTokens = MapPut(@, out.refresh_token,
                                                   MintRefresh(item, refreshTTL, t, n)),
                          !.codes = MapPut(@, code, [item EXCEPT !.used_at = <<t>>]),
                          !.pending = MapDelete(@, item.state)],
             err |-> ErrNil, out |-> out]

ValidateAccessToken(s, token, t) ==
    LET c == cleanupLocked(s, t) IN
    IF token \notin DOMAIN c.accessTokens
    THEN [store |-> c, err |-> ErrTokenNotFound, out |-> NoUser]
    ELSE IF After(t, c.accessTokens[token].expires_at)
    THEN [store |-> [c EXCEPT !.accessTokens = MapDelete(@, token)],
          err |-> ErrTokenExpired, out |-> NoUser]
    ELSE [store |-> c, err |-> ErrNil, out |-> c.accessTokens[token].user]

----------------------------------------------------------------------------
(* The MemoryStore driven directly: every sequence of its calls on a      *)
(* store that starts empty, while the clock advances.  The callers pass   *)
(* time.Now().UTC(), so the time a call carries is the clock's.  memLog   *)
(* keeps what the store returned, which the store itself forgets on       *)
(* cleanup.                                                               *)

AuthInit ==
    /\ mem = NewMemoryStore
    /\ memOp = [op |-> "new", key |-> <<>>, state |-> <<>>, ttl |-> <<>>, t |-> ZeroTime,
                err |-> ErrNil]
    /\ memLog = [started |-> <<>>, issued |-> <<>>, grants |-> <<>>]

NowRead == {now}
LoginTTLs == 0..MaxTTL
LoginStates == {randomHex(i) : i \in 1..MaxLogins}
LoginCodes == {LoginCode(i) : i \in 1..MaxCodes}
AccessTokens == {randomToken("atk_", i) : i \in 1..MaxGrants}
CallbackURL == <<>>

MemStartCLILogin ==
    /\ Len(memLog.started) < MaxLogins
    /\ \E ttl \in LoginTTLs, t \in NowRead :
        LET r == StartCLILogin(mem, CallbackURL, ttl, t, randomHex(Len(memLog.started) + 1))
        IN /\ mem' = r.store
           /\ memOp' = [op |-> "StartCLILogin", key |-> r.out.state, state |-> <<>>,
                        ttl |-> <<ttl>>, t |-> t, err |-> r.err]
           /\ memLog' = IF r.err = ErrNil
                        THEN [memLog EXCEPT !.started = Append(@, r.out)]
                        ELSE memLog
           /\ UNCHANGED <<regVars, protoVars>>

MemGetPendingCLILogin ==
    \E state \in LoginStates, t \in NowRead :
        LET r == GetPendingCLILogin(mem, state, t)
        IN /\ mem' = r.store
           /\ memOp' = [op |-> "GetPendingCLILogin", key |-> state, state |-> <<>>,
                        ttl |-> <<>>, t |-> t, err |-> r.err]
           /\ UNCHANGED <<memLog, regVars, protoVars>>

MemIssueCodeForState ==
    /\ Len(memLog.issued) < MaxCodes
    /\ \E state \in LoginStates, ttl \in LoginTTLs, t \in NowRead :
        LET r == IssueCodeForState(mem, state, DevUser, ttl, t, Len(memLog.issued) + 1)
        IN /\ mem' = r.store
           /\ memOp' = [op |-> "IssueCodeForState", key |-> state, state |-> <<>>,
                        ttl |-> <<ttl>>, t |-> t, err |-> r.err]
           /\ memLog' = IF r.err = ErrNil
                        THEN [memLog EXCEPT !.issued = Append(@, r.out)]
                        ELSE memLog
           /\ UNCHANGED <<regVars, protoVars>>

MemExchangeCode ==
    /\ Len(memLog.grants) < MaxGrants
    /\ \E code \in LoginCodes, state \in LoginStates \cup {<<>>},
          accessTTL \in LoginTTLs, refreshTTL \in LoginTTLs, t \in NowRead :
        LET r == ExchangeCode(mem, code, state, accessTTL, refreshTTL, t,
                              Len(memLog.grants) + 1)
        IN /\ mem' = r.store
           /\ memOp' = [op |-> "ExchangeCode", key |-> code, state |-> state,
                        ttl |-> <<accessTTL, refreshTTL>>, t |-> t, err |-> r.err]
           /\ memLog' = IF r.err = ErrNil
                        THEN [memLog EXCEPT !.grants =
                                Append(@, [code |-> code, token |-> r.out])]
                        ELSE memLog
           /\ UNCHANGED <<regVars, protoVars>>

MemValidateAccessToken ==
    \E token \in AccessTokens, t \in NowRead :
        LET r == ValidateAccessToken(mem, token, t)
        IN /\ mem' = r.store
           /\ memOp' = [op |-> "ValidateAccessToken", key |-> token, state |-> <<>>,
                        ttl |-> <<>>, t |-> t, err |-> r.err]
           /\ UNCHANGED <<memLog, regVars, protoVars>>

MemTick ==
    /\ now < MaxTime
    /\ now' = now + 1
    /\ UNCHANGED <<regVars, authVars, auxVars, recipients, invites, requests, issued,
                   proc, last>>

NextAuth ==
    \/ MemStartCLILogin
    \/ MemGetPendingCLILogin
    \/ MemIssueCodeForState
    \/ MemExchangeCode
    \/ MemValidateAccessToken
    \/ MemTick

----------------------------------------------------------------------------

RegNames == {sBob, sBOB, sAmy, sF1, sEmpty}
RegKeys == {sK1, sK2Pad, sK3, sEmpty}
RegFingerprints == {sF1, sF1U, sF2}
RegQueries == {sBob, sAmy, sF1, sF2, sK1}

RegInit ==
    /\ reg = EmptyStore
    /\ regOp = [op |-> "new", err |-> ErrNil]

RegAdd ==
    \E name \in RegNames, pub \in RegKeys, fp \in RegFingerprints :
        LET r == Recipient(name, pub, fp, ZeroTime, "", "manual", <<>>)
            out == Add(reg, r, now)
        IN /\ reg' = out.store
           /\ regOp' = [op |-> "Add", err |-> out.err]
           /\ UNCHANGED <<protoVars, authVars>>

RegRevoke ==
    \E q \in RegQueries :
        LET out == Revoke(reg, q)
        IN /\ reg' = out.store
           /\ regOp' = [op |-> "Revoke", err |-> out.err]
           /\ UNCHANGED <<protoVars, authVars>>

RegDelete ==
    \E q \in RegQueries :
        LET out == Delete(reg, q)
        IN /\ reg' = out.store
           /\ regOp' = [op |-> "Delete", err |-> out.err]
           /\ UNCHANGED <<protoVars, authVars>>

RegNext == RegAdd \/ RegRevoke \/ RegDelete


----------------------------------------------------------------------------
(* feature/enroll: Invite, Request, tokens and the validation rules *)

InviteStatusActive == "active"
InviteStatusUsed == "used"
InviteStatusRevoked == "revoked"
RequestStatusPending == "pending"
RequestStatusApproved == "approved"
RequestStatusRejected == "rejected"

ErrInvalidToken == "invalid invite token"
ErrInviteExpired == "invite expired"
ErrInviteNotFound == "invite not found"
ErrInviteUsed == "invite already used"
ErrRequestNotFound == "enrollment request not found"
ErrInviteStatus == "invite status is"
ErrInviteIdRequired == "invite id is required"
ErrPendingForInvite == "pending request already exists for invite"
ErrDevicePending == "device already has a pending request"
ErrNotPending == "request is not pending (expected pending)"
ErrTTL == "ttl must be greater than zero"
ErrTTLFlag == "--ttl must be > 0"
ErrStore == "store error"
(* no error is returned: the process stopped before the command returned *)
ErrCrash == "process stopped"

(* the zero values Invite{} and Request{} *)
NoInvite ==
    [version |-> 0, id |-> <<>>, secret_hash |-> <<>>, status |-> "",
     created_at |-> ZeroTime, expires_at |-> ZeroTime, created_by |-> <<>>,
     used_by_request_id |-> 0, used_at |-> ZeroTime]

NoRequest ==
    [version |-> 0, id |-> 0, invite_id |-> <<>>, status |-> "",
     created_at |-> ZeroTime, decision_at |-> ZeroTime, decision_note |-> <<>>,
     device_name |-> <<>>, public_key |-> <<>>, fingerprint |-> <<>>]

(* randomHex(8) for the n-th invite, randomTokenSecret(18) for its secret: *)
(* fresh values, distinct for distinct n.  A repeated draw of 8 random     *)
(* bytes is not modelled: FreshInvite and FreshRequest draw unused ids.    *)
HexId(n) == <<"i", ToString(n)>>
TokenSecret(n) == <<"s", ToString(n)>>

(* sha256 digests, hex-encoded: a digest is written as a tag before the    *)
(* trimmed input, so equal digests come from equal trimmed inputs          *)
secretHash(secret) == <<"sha256:">> \o TrimSpace(secret)
Fingerprint(pub) == <<"fp:">> \o TrimSpace(pub)

TokenPrefix == <<"envlock-invite-">>
(* a token with a colon between the id and the secret *)
formatTokenColon(id, secret) == TokenPrefix \o id \o <<":">> \o secret

formatToken(id, secret) == TokenPrefix \o id \o <<".">> \o secret

HasPrefix(s, prefix) ==
    Len(s) >= Len(prefix) /\ SubSeq(s, 1, Len(prefix)) = prefix

(* strings.Split(body, "."): the pieces between the dots *)
RECURSIVE Split(_)
Split(body) ==
    LET dots == {i \in 1..Len(body) : body[i] = "."} IN
    IF dots = {} THEN <<body>>
    ELSE LET d == CHOOSE i \in dots : \A j \in dots : i <= j
         IN <<SubSeq(body, 1, d - 1)>> \o Split(SubSeq(body, d + 1, Len(body)))

ParseToken(token) ==
    LET t == TrimSpace(token)
        bad == [id |-> <<>>, secret |-> <<>>, err |-> ErrInvalidToken]
    IN IF ~HasPrefix(t, TokenPrefix) THEN bad
       ELSE LET parts == Split(SubSeq(t, Len(TokenPrefix) + 1, Len(t)))
            IN IF Len(parts) # 2 THEN bad
               ELSE IF TrimSpace(parts[1]) = <<>> \/ TrimSpace(parts[2]) = <<>>
                    THEN bad
               ELSE [id |-> parts[1], secret |-> parts[2], err |-> ErrNil]
(* a NewInvite that puts the secret itself in the invite *)
NewInviteStoringSecret(ttl, createdBy, id, secret, t) ==
    IF ttl <= 0
    THEN [invite |-> NoInvite, token |-> <<>>, err |-> ErrTTL]
    ELSE [invite |-> [version |-> 1, id |-> id, secret_hash |-> secret,
                      status |-> InviteStatusActive, created_at |-> t,
                      expires_at |-> t + ttl, created_by |-> TrimSpace(createdBy),
                      used_by_request_id |-> 0, used_at |-> ZeroTime],
          token |-> formatToken(id, secret), err |-> ErrNil]
(* a NewInvite that refuses a negative ttl only *)
NewInviteAllowingZero(ttl, createdBy, id, secret, t) ==
    IF ttl < 0
    THEN [invite |-> NoInvite, token |-> <<>>, err |-> ErrTTL]
    ELSE [invite |-> [version |-> 1, id |-> id, secret_hash |-> secretHash(secret),
                      status |-> InviteStatusActive, created_at |-> t,
                      expires_at |-> t + ttl, created_by |-> TrimSpace(createdBy),
                      used_by_request_id |-> 0, used_at |-> ZeroTime],
          token |-> formatToken(id, secret), err |-> ErrNil]

(* NewInvite at time t, with the random id and secret it drew *)
NewInvite(ttl, createdBy, id, secret, t) ==
    IF ttl <= 0
    THEN [invite |-> NoInvite, token |-> <<>>, err |-> ErrTTL]
    ELSE [invite |-> [version |-> 1, id |-> id, secret_hash |-> secretHash(secret),
                      status |-> InviteStatusActive, created_at |-> t,
                      expires_at |-> t + ttl, created_by |-> TrimSpace(createdBy),
                      used_by_request_id |-> 0, used_at |-> ZeroTime],
          token |-> formatToken(id, secret), err |-> ErrNil]
(* a verification that compares the secret's hash and not the id *)
VerifyTokenSecretOnly(invite, token) ==
    LET p == ParseToken(token) IN
    IF p.err # ErrNil THEN p.err
    ELSE IF invite.secret_hash # secretHash(p.secret) THEN ErrInvalidToken
    ELSE ErrNil

VerifyToken(invite, token) ==
    LET p == ParseToken(token) IN
    IF p.err # ErrNil THEN p.err
    ELSE IF TrimSpace(invite.id) # TrimSpace(p.id) THEN ErrInvalidToken
    ELSE IF invite.secret_hash # secretHash(p.secret) THEN ErrInvalidToken
    ELSE ErrNil
(* an expiry test that counts the instant of expires_at as expired *)
isInviteExpiredAtBoundary(invite, t) ==
    invite.expires_at # ZeroTime /\ t >= invite.expires_at

isInviteExpired(invite, t) ==
    invite.expires_at # ZeroTime /\ t > invite.expires_at
(* a validation for join that tests the expiry before the status *)
ValidateInviteForJoinExpiryFirst(invite, t) ==
    IF isInviteExpired(invite, t) THEN ErrInviteExpired
    ELSE IF invite.status = InviteStatusUsed THEN ErrInviteUsed
    ELSE IF invite.status # "" /\ invite.status # InviteStatusActive THEN ErrInviteStatus
    ELSE ErrNil
(* a validation for join that does not test the expiry *)
ValidateInviteForJoinNoExpiry(invite, t) ==
    IF invite.status = InviteStatusUsed THEN ErrInviteUsed
    ELSE IF invite.status # "" /\ invite.status # InviteStatusActive THEN ErrInviteStatus
    ELSE ErrNil

ValidateInviteForJoin(invite, t) ==
    IF invite.status = InviteStatusUsed THEN ErrInviteUsed
    ELSE IF invite.status # "" /\ invite.status # InviteStatusActive THEN ErrInviteStatus
    ELSE IF isInviteExpired(invite, t) THEN ErrInviteExpired
    ELSE ErrNil
(* a validation for approval that tests the expiry as the one for join does *)
ValidateInviteForApprovalExpiring(invite) ==
    IF invite.status = InviteStatusUsed THEN ErrInviteUsed
    ELSE IF invite.status # "" /\ invite.status # InviteStatusActive THEN ErrInviteStatus
    ELSE IF isInviteExpired(invite, now) THEN ErrInviteExpired
    ELSE ErrNil

ValidateInviteForApproval(invite) ==
    IF invite.status = InviteStatusUsed THEN ErrInviteUsed
    ELSE IF invite.status # "" /\ invite.status # InviteStatusActive THEN ErrInviteStatus
    ELSE ErrNil
(* a conflict scan that does not look at the status of the requests *)
PendingConflictAnyStatus(existing, invite, fingerprint) ==
    LET byInvite(r) == r.invite_id = invite.id
        byDevice(r) == r.fingerprint = TrimSpace(fingerprint)
        hits == {i \in 1..Len(existing) : byInvite(existing[i]) \/ byDevice(existing[i])}
    IN IF hits = {} THEN ErrNil
       ELSE LET k == CHOOSE i \in hits : \A j \in hits : i <= j
            IN IF byInvite(existing[k]) THEN ErrPendingForInvite ELSE ErrDevicePending
(* a conflict scan that looks for a pending request for the invite in the *)
(* whole list before it looks for one for the fingerprint                  *)
PendingConflictInviteFirst(existing, invite, fingerprint) ==
    IF \E i \in 1..Len(existing) :
          existing[i].invite_id = invite.id /\ existing[i].status = RequestStatusPending
    THEN ErrPendingForInvite
    ELSE IF \E i \in 1..Len(existing) :
               /\ existing[i].fingerprint = TrimSpace(fingerprint)
               /\ existing[i].status = RequestStatusPending
    THEN ErrDevicePending
    ELSE ErrNil

(* the conflict scan of NewJoinRequest: the error of the first request in  *)
(* list order that is pending for the invite or for the fingerprint        *)
PendingConflict(existing, invite, fingerprint) ==
    LET byInvite(r) == r.invite_id = invite.id /\ r.status = RequestStatusPending
        byDevice(r) == r.fingerprint = TrimSpace(fingerprint)
                         /\ r.status = RequestStatusPending
        hits == {i \in 1..Len(existing) : byInvite(existing[i]) \/ byDevice(existing[i])}
    IN IF hits = {} THEN ErrNil
       ELSE LET k == CHOOSE i \in hits : \A j \in hits : i <= j
            IN IF byInvite(existing[k]) THEN ErrPendingForInvite ELSE ErrDevicePending

(* a NewJoinRequest without the test for a used invite *)
NewJoinRequestNoUsedTest(existing, invite, deviceName, publicKey, fingerprint, id, t) ==
    LET fail(e) == [req |-> NoRequest, err |-> e]
        conflict == PendingConflict(existing, invite, fingerprint)
    IN IF TrimSpace(invite.id) = <<>> THEN fail(ErrInviteIdRequired)
       ELSE IF isInviteExpired(invite, t) THEN fail(ErrInviteExpired)
       ELSE IF invite.status # "" /\ invite.status # InviteStatusActive
            THEN fail(ErrInviteStatus)
       ELSE IF conflict # ErrNil THEN fail(conflict)
       ELSE [req |-> [version |-> 1, id |-> id, invite_id |-> invite.id,
                      status |-> RequestStatusPending, created_at |-> t,
                      decision_at |-> ZeroTime, decision_note |-> <<>>,
                      device_name |-> TrimSpace(deviceName),
                      public_key |-> TrimSpace(publicKey),
                      fingerprint |-> TrimSpace(fingerprint)],
             err |-> ErrNil]

(* NewJoinRequest at time t, with the random request id it drew *)
NewJoinRequest(existing, invite, deviceName, publicKey, fingerprint, id, t) ==
    LET fail(e) == [req |-> NoRequest, err |-> e]
        conflict == PendingConflict(existing, invite, fingerprint)
    IN IF TrimSpace(invite.id) = <<>> THEN fail(ErrInviteIdRequired)
       ELSE IF isInviteExpired(invite, t) THEN fail(ErrInviteExpired)
       ELSE IF invite.status = InviteStatusUsed THEN fail(ErrInviteUsed)
       ELSE IF invite.status # "" /\ invite.status # InviteStatusActive
            THEN fail(ErrInviteStatus)
       ELSE IF conflict # ErrNil THEN fail(conflict)
       ELSE [req |-> [version |-> 1, id |-> id, invite_id |-> invite.id,
                      status |-> RequestStatusPending, created_at |-> t,
                      decision_at |-> ZeroTime, decision_note |-> <<>>,
                      device_name |-> TrimSpace(deviceName),
                      public_key |-> TrimSpace(publicKey),
                      fingerprint |-> TrimSpace(fingerprint)],
             err |-> ErrNil]

----------------------------------------------------------------------------
(* core/remote: the store objects.  An absent object is the zero value of *)
(* its type; invite and request objects are keyed by the number n of      *)
(* their id, HexId(n) for invites and n itself for requests.              *)

AbsentStore == [version |-> 0, recipients |-> <<>>]

(* LoadRecipients: an absent object or version 0 reads as version 1 *)
LoadRecipients(obj) == IF obj.version = 0 THEN [obj EXCEPT !.version = 1] ELSE obj

(* WriteRecipients: the object that is put *)
WriteRecipients(rs) == IF rs.version = 0 THEN [rs EXCEPT !.version = 1] ELSE rs

(* inviteKey: the slot of the invite whose id is the trimmed argument, 0 if none *)
inviteKey(id) ==
    LET hit == {n \in 1..MaxInvites : HexId(n) = TrimSpace(id)}
    IN IF hit = {} THEN 0 ELSE CHOOSE n \in hit : TRUE

LoadInvite(id) ==
    LET n == inviteKey(id) IN
    IF n = 0 \/ invites[n] = NoInvite
    THEN [invite |-> NoInvite, err |-> ErrInviteNotFound]
    ELSE [invite |-> IF invites[n].version = 0 THEN [invites[n] EXCEPT !.version = 1]
                     ELSE invites[n],
          err |-> ErrNil]

LoadRequest(id) ==
    IF id \notin 1..MaxRequests \/ requests[id] = NoRequest
    THEN [req |-> NoRequest, err |-> ErrRequestNotFound]
    ELSE [req |-> IF requests[id].version = 0 THEN [requests[id] EXCEPT !.version = 1]
                  ELSE requests[id],
          err |-> ErrNil]

RECURSIVE Perms(_)
Perms(S) ==
    IF S = {} THEN {<<>>}
    ELSE UNION {{<<x>> \o q : q \in Perms(S \ {x})} : x \in S}

(* ListRequests: the stored requests, newest first; sort.Slice is not      *)
(* stable, so requests created at the same time come in any order          *)
ListRequests ==
    LET stored == {n \in 1..MaxRequests : requests[n] # NoRequest}
        sorted(q) == \A i, j \in 1..Len(q) :
                        i < j => requests[q[i]].created_at >= requests[q[j]].created_at
    IN {[i \in 1..Len(q) |-> requests[q[i]]] : q \in {x \in Perms(stored) : sorted(x)}}

----------------------------------------------------------------------------
(* feature/cli: the commands.  A process is one CLI invocation; a step is *)
(* one store call together with the local computation that follows it up  *)
(* to the next store call.  ok is the outcome of the step's store call.   *)

Procs == {"p1", "p2"}

(* no function has been applied on its own *)
NoCall == [fn |-> ""]

(* the store when a command began, kept to state what the command changed *)
NoSnap == [recipients |-> AbsentStore, invites |-> <<>>, requests |-> <<>>]

IdleProc ==
    [pc |-> "idle", cmd |-> "", err |-> ErrNil, wlog |-> <<>>,
     req |-> NoRequest, invite |-> NoInvite, store |-> AbsentStore,
     addErr |-> ErrNil, note |-> <<>>, name |-> <<>>, pub |-> <<>>,
     snap |-> NoSnap, failed |-> FALSE]

(* the value of last in the specifications that do not record results *)
Unobserved == [IdleProc EXCEPT !.pc = "unobserved"]

Free(p) == proc[p].pc = "idle"

At(p, cmd, pc) == proc[p].cmd = cmd /\ proc[p].pc = pc

Begin(cmd) ==
    [IdleProc EXCEPT !.cmd = cmd,
                     !.snap = IF last = Unobserved THEN NoSnap
                              ELSE [recipients |-> recipients, invites |-> invites,
                                    requests |-> requests]]

Return(rec, e) == [rec EXCEPT !.pc = "done", !.err = e]

(* a step's outcome: the command goes on, or it returns and the process  *)
(* is free for the next command                                           *)
Settle(p, rec) ==
    IF rec.pc = "done"
    THEN /\ proc' = [proc EXCEPT ![p] = IdleProc]
         /\ last' = IF last = Unobserved THEN last ELSE rec
    ELSE proc' = [proc EXCEPT ![p] = rec] /\ UNCHANGED last

(* a store call of the command returned an error *)
Failed(rec) == [rec EXCEPT !.failed = TRUE]

(* the store writes a command issued: the call, the status of the object *)
(* written and whether the call returned without error                    *)
Logged(rec, what, status, ok) ==
    [rec EXCEPT !.wlog = Append(@, [call |-> what, status |-> status, ok |-> ok]),
                !.failed = @ \/ ~ok]

(* the machines that run `enroll join`: the device name of the local key's *)
(* metadata and the key's public key                                       *)
Machine1 == [meta |-> sBob, key |-> sK1]
Machine2 == [meta |-> sBOB, key |-> sK2]
Machines == {Machine1, Machine2}
(* the machine and the --name flag of a join *)
Joiners == {<<Machine1, sEmpty>>, <<Machine2, sEmpty>>, <<Machine2, sAmy>>}
CreatedBys == {sAmy}
Notes == {sNote}
AddNames == {sBob, sAmy}
AddKeys == {sK1, sK2Pad}
RemoveQueries == {sBob, Fingerprint(sK2)}

(* a randomHex that may draw the id of a stored invite *)
RepeatedInvite == 1..MaxInvites

(* randomHex for a new invite: the first unused id *)
FreshInvite ==
    LET free == {n \in 1..MaxInvites : invites[n] = NoInvite}
    IN IF free = {} THEN {} ELSE {CHOOSE n \in free : \A m \in free : n <= m}

(* randomHex for a new request: the first id neither stored nor drawn by  *)
(* a join that has yet to save                                             *)
FreshRequest ==
    LET free == {n \in 1..MaxRequests :
                    /\ requests[n] = NoRequest
                    /\ \A q \in Procs : ~(proc[q].pc = "join_save" /\ proc[q].req.id = n)}
    IN IF free = {} THEN {} ELSE {CHOOSE n \in free : \A m \in free : n <= m}

Joining == {q \in Procs : proc[q].cmd = "join" /\ proc[q].pc \in {"join_list", "join_save"}}

Stored == {n \in 1..MaxRequests : requests[n] # NoRequest}

Tick ==
    /\ now < MaxTime
    /\ now' = now + 1
    /\ UNCHANGED <<regVars, authVars, auxVars, recipients, invites, requests, issued, proc, last>>

(* the process of a command stops between two of its store calls *)
Crash(p) ==
    /\ ~Free(p)
    /\ Settle(p, Return(proc[p], ErrCrash))
    /\ UNCHANGED <<regVars, authVars, auxVars, recipients, invites, requests, issued, now>>

(* runEnrollInvite: the --ttl check, NewInvite and SaveInvite *)
EnrollInvite(p, ttl, createdBy, ok) ==
    /\ Free(p)
    /\ \E n \in (IF ttl <= 0 THEN {0} ELSE FreshInvite) :
        LET out == NewInvite(ttl, createdBy, HexId(n), TokenSecret(n), now)
            rec == Begin("invite")
        IN IF ttl <= 0
           THEN /\ Settle(p, Return(rec, ErrTTLFlag))
                /\ UNCHANGED <<invites, issued>>
           ELSE IF out.err # ErrNil
           THEN /\ Settle(p, Return(rec, out.err))
                /\ UNCHANGED <<invites, issued>>
           ELSE IF ~ok
           THEN /\ Settle(p, Return(Logged(rec, "SaveInvite", out.invite.status, FALSE), ErrStore))
                /\ UNCHANGED <<invites, issued>>
           ELSE /\ invites' = [invites EXCEPT ![n] = out.invite]
                /\ issued' = issued \cup {out.token}
                /\ Settle(p, Return([Logged(rec, "SaveInvite", out.invite.status, TRUE) EXCEPT !.invite = out.invite],
                                   ErrNil))
    /\ UNCHANGED <<regVars, authVars, auxVars, recipients, requests, now>>

(* runEnrollJoin, up to the key and device name: ParseToken, LoadInvite,   *)
(* VerifyToken, ValidateInviteForJoin                                      *)
JoinLoadInvite(p, token, machine, nameFlag, ok) ==
    /\ Free(p)
    /\ Cardinality(Stored) + Cardinality(Joining) < MaxRequests
    /\ LET rec == Begin("join")
           parsed == ParseToken(token)
           got == LoadInvite(parsed.id)
           flag == TrimSpace(nameFlag)
           name == IF flag # <<>> THEN flag
                   ELSE IF machine.meta # <<>> THEN machine.meta
                   ELSE <<"d", "e", "v", "i", "c", "e">>
           e == IF parsed.err # ErrNil THEN parsed.err
                ELSE IF ~ok THEN ErrStore
                ELSE IF got.err # ErrNil THEN got.err
                ELSE IF VerifyToken(got.invite, token) # ErrNil
                     THEN VerifyToken(got.invite, token)
                ELSE ValidateInviteForJoin(got.invite, now)
       IN Settle(p, IF e # ErrNil
                     THEN Return(IF parsed.err = ErrNil /\ ~ok THEN Failed(rec) ELSE rec, e)
                     ELSE [rec EXCEPT !.pc = "join_list", !.invite = got.invite,
                                      !.name = name, !.pub = machine.key])
    /\ UNCHANGED <<regVars, authVars, auxVars, recipients, invites, requests, issued, now>>

(* runEnrollJoin: ListRequests and NewJoinRequest *)
JoinListRequests(p, ok) ==
    /\ At(p, "join", "join_list")
    /\ \E existing \in ListRequests, id \in FreshRequest :
        LET rec == proc[p]
            out == NewJoinRequest(existing, rec.invite, rec.name, rec.pub,
                                  Fingerprint(rec.pub), id, now)
        IN Settle(p, IF ~ok THEN Return(Failed(rec), ErrStore)
                      ELSE IF out.err # ErrNil THEN Return(rec, out.err)
                      ELSE [rec EXCEPT !.pc = "join_save", !.req = out.req])
    /\ UNCHANGED <<regVars, authVars, auxVars, recipients, invites, requests, issued, now>>

(* runEnrollJoin: SaveRequest *)
JoinSaveRequest(p, ok) ==
    /\ At(p, "join", "join_save")
    /\ LET rec == Logged(proc[p], "SaveRequest", proc[p].req.status, ok)
       IN IF ~ok
          THEN /\ Settle(p, Return(rec, ErrStore))
               /\ UNCHANGED requests
          ELSE /\ requests' = [requests EXCEPT ![rec.req.id] = rec.req]
               /\ Settle(p, Return(rec, ErrNil))
    /\ UNCHANGED <<regVars, authVars, auxVars, recipients, invites, issued, now>>

(* runEnrollApprove: the decision recorded on the request *)
MarkApproved(req, note, t) ==
    [req EXCEPT !.status = RequestStatusApproved,
                !.decision_at = t,
                !.decision_note = TrimSpace(note)]

(* an approval that records the request on the invite and leaves its status *)
MarkUsedKeepsStatus(invite, req) ==
    [invite EXCEPT !.used_by_request_id = req.id,
                   !.used_at = req.decision_at]

(* runEnrollApprove: the invite consumed by the request, at the time of   *)
(* the request's decision                                                  *)
MarkUsed(invite, req) ==
    [invite EXCEPT !.status = InviteStatusUsed,
                   !.used_by_request_id = req.id,
                   !.used_at = req.decision_at]
(* a rejection that records the reason as it was given *)
MarkRejectedUntrimmed(req, reason, t) ==
    [req EXCEPT !.status = RequestStatusRejected,
                !.decision_at = t,
                !.decision_note = reason]

(* runEnrollReject: the decision recorded on the request *)
MarkRejected(req, reason, t) ==
    [req EXCEPT !.status = RequestStatusRejected,
                !.decision_at = t,
                !.decision_note = TrimSpace(reason)]

(* an approval that any Add error aborts *)
FatalAlways(addErr) == addErr # ErrNil

(* runEnrollApprove: an Add error other than a duplicate aborts the approval *)
Fatal(addErr) == addErr # ErrNil /\ addErr # ErrDuplicateRecipient

(* runEnrollApprove: LoadRequest and the pending check *)
ApproveLoadRequest(p, reqID, note, ok) ==
    /\ Free(p)
    /\ LET rec == [Begin("approve") EXCEPT !.note = note]
           got == LoadRequest(reqID)
       IN Settle(p, IF ~ok THEN Return(Failed(rec), ErrStore)
                     ELSE IF got.err # ErrNil THEN Return(rec, got.err)
                     ELSE IF got.req.status # RequestStatusPending
                          THEN Return([rec EXCEPT !.req = got.req], ErrNotPending)
                     ELSE [rec EXCEPT !.pc = "ap_invite", !.req = got.req])
    /\ UNCHANGED <<regVars, authVars, auxVars, recipients, invites, requests, issued, now>>

(* runEnrollApprove: LoadInvite and ValidateInviteForApproval *)
ApproveLoadInvite(p, ok) ==
    /\ At(p, "approve", "ap_invite")
    /\ LET rec == proc[p]
           got == LoadInvite(rec.req.invite_id)
       IN Settle(p, IF ~ok THEN Return(Failed(rec), ErrStore)
                     ELSE IF got.err # ErrNil THEN Return(rec, got.err)
                     ELSE IF ValidateInviteForApproval(got.invite) # ErrNil
                          THEN Return([rec EXCEPT !.invite = got.invite],
                                    ValidateInviteForApproval(got.invite))
                     ELSE [rec EXCEPT !.pc = "ap_recipients", !.invite = got.invite])
    /\ UNCHANGED <<regVars, authVars, auxVars, recipients, invites, requests, issued, now>>

(* an approval that adds the recipient as a manual entry *)
ApprovedRecipientManual(req, t) ==
    Recipient(req.device_name, req.public_key, req.fingerprint, t, StatusActive,
              "manual", <<"Added via enrollment request ", ToString(req.id)>>)

(* the recipient that approve adds for a request *)
ApprovedRecipient(req, t) ==
    Recipient(req.device_name, req.public_key, req.fingerprint, t, StatusActive,
              "enroll-approve", <<"Added via enrollment request ", ToString(req.id)>>)

(* an approval that writes the registry before it looks at the Add error *)
ApproveLoadRecipientsThenWrite(p, ok) ==
    /\ At(p, "approve", "ap_recipients")
    /\ LET rec == proc[p]
           store == LoadRecipients(recipients)
           out == Add(store, ApprovedRecipient(rec.req, now), now)
           wrote == Logged([rec EXCEPT !.addErr = out.err, !.store = out.store],
                           "WriteRecipients", "", TRUE)
       IN IF ~ok
          THEN /\ Settle(p, Return(Failed(rec), ErrStore))
               /\ UNCHANGED recipients
          ELSE /\ recipients' = WriteRecipients(out.store)
               /\ Settle(p, IF Fatal(out.err) THEN Return(wrote, out.err)
                             ELSE [wrote EXCEPT !.pc = "ap_request"])
    /\ UNCHANGED <<regVars, authVars, auxVars, invites, requests, issued, now>>

(* runEnrollApprove: LoadRecipients and store.Add; a duplicate is not an error *)
ApproveLoadRecipients(p, ok) ==
    /\ At(p, "approve", "ap_recipients")
    /\ LET rec == proc[p]
           store == LoadRecipients(recipients)
           out == Add(store, ApprovedRecipient(rec.req, now), now)
       IN Settle(p, IF ~ok THEN Return(Failed(rec), ErrStore)
                     ELSE IF Fatal(out.err)
                          THEN Return([rec EXCEPT !.addErr = out.err], out.err)
                     ELSE [rec EXCEPT !.pc = "ap_write", !.store = out.store,
                                      !.addErr = out.err])
    /\ UNCHANGED <<regVars, authVars, auxVars, recipients, invites, requests, issued, now>>

(* runEnrollApprove: WriteRecipients *)
ApproveWriteRecipients(p, ok) ==
    /\ At(p, "approve", "ap_write")
    /\ LET rec == Logged(proc[p], "WriteRecipients", "", ok)
       IN IF ~ok
          THEN /\ Settle(p, Return(rec, ErrStore))
               /\ UNCHANGED recipients
          ELSE /\ recipients' = WriteRecipients(rec.store)
               /\ Settle(p, [rec EXCEPT !.pc = "ap_request"])
    /\ UNCHANGED <<regVars, authVars, auxVars, invites, requests, issued, now>>

(* an approval that returns without error when SaveInvite has failed *)
ApproveSaveInviteUnchecked(p, ok) ==
    /\ At(p, "approve", "ap_used")
    /\ LET inv == MarkUsed(proc[p].invite, proc[p].req)
           rec == Logged([proc[p] EXCEPT !.invite = inv], "SaveInvite", inv.status, ok)
       IN /\ invites' = IF ok THEN [invites EXCEPT ![inviteKey(inv.id)] = inv] ELSE invites
          /\ Settle(p, Return(rec, ErrNil))
    /\ UNCHANGED <<regVars, authVars, auxVars, recipients, requests, issued, now>>

(* an approval that goes on to SaveInvite when SaveRequest has failed *)
ApproveSaveRequestUnchecked(p, ok) ==
    /\ At(p, "approve", "ap_request")
    /\ LET req == MarkApproved(proc[p].req, proc[p].note, now)
           rec == Logged([proc[p] EXCEPT !.req = req], "SaveRequest", req.status, ok)
       IN /\ requests' = IF ok THEN [requests EXCEPT ![req.id] = req] ELSE requests
          /\ Settle(p, [rec EXCEPT !.pc = "ap_used"])
    /\ UNCHANGED <<regVars, authVars, auxVars, recipients, invites, issued, now>>

(* runEnrollApprove: the request marked approved, and SaveRequest *)
ApproveSaveRequest(p, ok) ==
    /\ At(p, "approve", "ap_request")
    /\ LET req == MarkApproved(proc[p].req, proc[p].note, now)
           rec == Logged([proc[p] EXCEPT !.req = req], "SaveRequest", req.status, ok)
       IN IF ~ok
          THEN /\ Settle(p, Return(rec, ErrStore))
               /\ UNCHANGED requests
          ELSE /\ requests' = [requests EXCEPT ![req.id] = req]
               /\ Settle(p, [rec EXCEPT !.pc = "ap_used"])
    /\ UNCHANGED <<regVars, authVars, auxVars, recipients, invites, issued, now>>

(* runEnrollApprove: the invite marked used at the time of the request's  *)
(* decision, and SaveInvite                                                *)
ApproveSaveInvite(p, ok) ==
    /\ At(p, "approve", "ap_used")
    /\ LET inv == MarkUsed(proc[p].invite, proc[p].req)
           rec == Logged([proc[p] EXCEPT !.invite = inv], "SaveInvite", inv.status, ok)
       IN IF ~ok
          THEN /\ Settle(p, Return(rec, ErrStore))
               /\ UNCHANGED invites
          ELSE /\ invites' = [invites EXCEPT ![inviteKey(inv.id)] = inv]
               /\ Settle(p, Return(rec, ErrNil))
    /\ UNCHANGED <<regVars, authVars, auxVars, recipients, requests, issued, now>>

(* runEnrollReject: LoadRequest and the pending check *)
RejectLoadRequest(p, reqID, reason, ok) ==
    /\ Free(p)
    /\ LET rec == [Begin("reject") EXCEPT !.note = reason]
           got == LoadRequest(reqID)
       IN Settle(p, IF ~ok THEN Return(Failed(rec), ErrStore)
                     ELSE IF got.err # ErrNil THEN Return(rec, got.err)
                     ELSE IF got.req.status # RequestStatusPending
                          THEN Return([rec EXCEPT !.req = got.req], ErrNotPending)
                     ELSE [rec EXCEPT !.pc = "rj_save", !.req = got.req])
    /\ UNCHANGED <<regVars, authVars, auxVars, recipients, invites, requests, issued, now>>

(* runEnrollReject: the request marked rejected, and SaveRequest *)
RejectSaveRequest(p, ok) ==
    /\ At(p, "reject", "rj_save")
    /\ LET req == MarkRejected(proc[p].req, proc[p].note, now)
           rec == Logged([proc[p] EXCEPT !.req = req], "SaveRequest", req.status, ok)
       IN IF ~ok
          THEN /\ Settle(p, Return(rec, ErrStore))
               /\ UNCHANGED requests
          ELSE /\ requests' = [requests EXCEPT ![req.id] = req]
               /\ Settle(p, Return(rec, ErrNil))
    /\ UNCHANGED <<regVars, authVars, auxVars, recipients, invites, issued, now>>

(* runRecipientsAdd: LoadRecipients and store.Add *)
RecipientsAddLoad(p, name, pub, note, ok) ==
    /\ Free(p)
    /\ LET rec == [Begin("add") EXCEPT !.name = name, !.pub = pub]
           store == LoadRecipients(recipients)
           out == Add(store, Recipient(name, pub, Fingerprint(pub), now, StatusActive,
                                       "manual", TrimSpace(note)), now)
       IN Settle(p, IF ~ok THEN Return(Failed(rec), ErrStore)
                     ELSE IF out.err # ErrNil
                          THEN Return([rec EXCEPT !.addErr = out.err], out.err)
                     ELSE [rec EXCEPT !.pc = "ra_write", !.store = out.store])
    /\ UNCHANGED <<regVars, authVars, auxVars, recipients, invites, requests, issued, now>>

(* runRecipientsRemove: LoadRecipients and store.Revoke, or store.Delete   *)
(* with --hard                                                             *)
RecipientsRemoveLoad(p, query, hard, ok) ==
    /\ Free(p)
    /\ LET rec == [Begin("remove") EXCEPT !.name = query]
           store == LoadRecipients(recipients)
           out == IF hard THEN Delete(store, query) ELSE Revoke(store, query)
       IN Settle(p, IF ~ok THEN Return(Failed(rec), ErrStore)
                     ELSE IF out.err # ErrNil
                          THEN Return(rec, out.err)
                     ELSE [rec EXCEPT !.pc = "ra_write", !.store = out.store])
    /\ UNCHANGED <<regVars, authVars, auxVars, recipients, invites, requests, issued, now>>

(* a WriteRecipients that refuses when the stored registry is no longer   *)
(* the one the command loaded                                              *)
RecipientsWriteIfUnchanged(p, ok) ==
    /\ proc[p].cmd \in {"add", "remove"} /\ proc[p].pc = "ra_write"
    /\ LET rec == Logged(proc[p], "WriteRecipients", "", ok)
       IN IF ~ok
          THEN /\ Settle(p, Return(rec, ErrStore))
               /\ UNCHANGED <<recipients, acked>>
          ELSE IF recipients # proc[p].snap.recipients
          THEN /\ Settle(p, Return(proc[p], "registry changed since it was loaded"))
               /\ UNCHANGED <<recipients, acked>>
          ELSE /\ recipients' = WriteRecipients(rec.store)
               /\ acked' = acked \cup {[cmd |-> rec.cmd, arg |-> rec.name]}
               /\ Settle(p, Return(rec, ErrNil))
    /\ UNCHANGED <<regVars, authVars, call, invites, requests, issued, now>>
(* runProjectInit: LoadRecipients and store.Add of the local device; a     *)
(* duplicate is not an error                                               *)
ProjectInitLoad(p, name, pub, ok) ==
    /\ Free(p)
    /\ LET rec == [Begin("init") EXCEPT !.name = name, !.pub = pub]
           store == LoadRecipients(recipients)
           out == Add(store, Recipient(name, pub, Fingerprint(pub), now, StatusActive,
                                       "local-init",
                                       <<"Added during project init">>), now)
       IN Settle(p, IF ~ok THEN Return(Failed(rec), ErrStore)
                     ELSE IF out.err # ErrNil /\ out.err # ErrDuplicateRecipient
                          THEN Return([rec EXCEPT !.addErr = out.err], out.err)
                     ELSE [rec EXCEPT !.pc = "pi_write", !.store = out.store,
                                      !.addErr = out.err])
    /\ UNCHANGED <<regVars, authVars, auxVars, recipients, invites, requests, issued, now>>

(* runProjectInit: WriteRecipients *)
ProjectInitWrite(p, ok) ==
    /\ At(p, "init", "pi_write")
    /\ LET rec == Logged(proc[p], "WriteRecipients", "", ok)
       IN IF ~ok
          THEN /\ Settle(p, Return(rec, ErrStore))
               /\ UNCHANGED recipients
          ELSE /\ recipients' = WriteRecipients(rec.store)
               /\ Settle(p, Return(rec, ErrNil))
    /\ UNCHANGED <<regVars, authVars, auxVars, invites, requests, issued, now>>

(* a WriteRecipients of recipients add that appends the new entry to the  *)
(* registry that is stored at the time of the write                        *)
RecipientsWriteAppending(p, ok) ==
    /\ proc[p].cmd \in {"add", "remove"} /\ proc[p].pc = "ra_write"
    /\ LET rec == Logged(proc[p], "WriteRecipients", "", ok)
           mine == rec.store.recipients
       IN IF ~ok
          THEN /\ Settle(p, Return(rec, ErrStore))
               /\ UNCHANGED <<recipients, acked>>
          ELSE /\ recipients' =
                     IF rec.cmd = "add"
                     THEN [WriteRecipients(rec.store) EXCEPT
                              !.recipients = Append(LoadRecipients(recipients).recipients,
                                                    mine[Len(mine)])]
                     ELSE WriteRecipients(rec.store)
               /\ acked' = acked \cup {[cmd |-> rec.cmd, arg |-> rec.name]}
               /\ Settle(p, Return(rec, ErrNil))
    /\ UNCHANGED <<regVars, authVars, call, invites, requests, issued, now>>

(* runRecipientsAdd, runRecipientsRemove: WriteRecipients; a command that *)
(* returns without error is recorded with its argument                    *)
RecipientsWrite(p, ok) ==
    /\ proc[p].cmd \in {"add", "remove"} /\ proc[p].pc = "ra_write"
    /\ LET rec == Logged(proc[p], "WriteRecipients", "", ok)
       IN IF ~ok
          THEN /\ Settle(p, Return(rec, ErrStore))
               /\ UNCHANGED <<recipients, acked>>
          ELSE /\ recipients' = WriteRecipients(rec.store)
               /\ acked' = acked \cup {[cmd |-> rec.cmd, arg |-> rec.name]}
               /\ Settle(p, Return(rec, ErrNil))
    /\ UNCHANGED <<regVars, authVars, call, invites, requests, issued, now>>

----------------------------------------------------------------------------
(* Specifications *)

ProtoInit ==
    /\ recipients = AbsentStore
    /\ invites = [n \in 1..MaxInvites |-> NoInvite]
    /\ requests = [n \in 1..MaxRequests |-> NoRequest]
    /\ issued = {}
    /\ now = 1
    /\ proc = [p \in Procs |-> IdleProc]
    /\ last = IdleProc
    /\ acked = {}
    /\ call = NoCall

Init == RegInit /\ ProtoInit /\ AuthInit

(* the same, with the results of the commands not recorded *)
InitUnobserved ==
    /\ RegInit
    /\ AuthInit
    /\ recipients = AbsentStore
    /\ invites = [n \in 1..MaxInvites |-> NoInvite]
    /\ requests = [n \in 1..MaxRequests |-> NoRequest]
    /\ issued = {}
    /\ now = 1
    /\ proc = [p \in Procs |-> IdleProc]
    /\ last = Unobserved
    /\ acked = {}
    /\ call = NoCall

(* the registry alone *)
SpecReg == Init /\ [][RegNext]_vars

(* the tokens a joining machine may present: the printed ones, and each   *)
(* with another secret                                                     *)
JoinTokens ==
    issued \cup {formatToken(ParseToken(t).id, <<"x">>) : t \in issued}

(* processes interleave between their store calls, and store calls may   *)
(* fail; the clock stands still                                           *)
Next ==
    \/ \E p \in Procs, ok \in BOOLEAN :
        \/ \E ttl \in 1..MaxTTL, by \in CreatedBys : EnrollInvite(p, ttl, by, ok)
        \/ \E t \in issued, m \in Machines : JoinLoadInvite(p, t, m, sEmpty, ok)
        \/ JoinListRequests(p, ok)
        \/ JoinSaveRequest(p, ok)
        \/ \E id \in 1..MaxRequests, note \in Notes : ApproveLoadRequest(p, id, note, ok)
        \/ ApproveLoadInvite(p, ok)
        \/ ApproveLoadRecipients(p, ok)
        \/ ApproveWriteRecipients(p, ok)
        \/ ApproveSaveRequest(p, ok)
        \/ ApproveSaveInvite(p, ok)
        \/ \E id \in 1..MaxRequests, reason \in Notes : RejectLoadRequest(p, id, reason, ok)
        \/ RejectSaveRequest(p, ok)

Spec == InitUnobserved /\ [][Next]_vars

(* commands run one at a time and every store call succeeds *)
NextSeq ==
    \/ Tick
    \/ \E p \in {"p1"} :
        \/ \E ttl \in 0..MaxTTL, by \in CreatedBys : EnrollInvite(p, ttl, by, TRUE)
        \/ \E t \in JoinTokens, j \in Joiners : JoinLoadInvite(p, t, j[1], j[2], TRUE)
        \/ JoinListRequests(p, TRUE)
        \/ JoinSaveRequest(p, TRUE)
        \/ \E id \in 1..MaxRequests, note \in Notes : ApproveLoadRequest(p, id, note, TRUE)
        \/ ApproveLoadInvite(p, TRUE)
        \/ ApproveLoadRecipients(p, TRUE)
        \/ ApproveWriteRecipients(p, TRUE)
        \/ ApproveSaveRequest(p, TRUE)
        \/ ApproveSaveInvite(p, TRUE)
        \/ \E id \in 1..MaxRequests, reason \in Notes : RejectLoadRequest(p, id, reason, TRUE)
        \/ RejectSaveRequest(p, TRUE)

SpecSeq == Init /\ [][NextSeq]_vars

(* commands run one at a time, store calls may fail and a process may     *)
(* stop between its store calls; the clock stands still                   *)
NextFault ==
    \/ Crash("p1")
    \/ \E p \in {"p1"}, ok \in BOOLEAN :
        \/ \E ttl \in 1..MaxTTL, by \in CreatedBys : EnrollInvite(p, ttl, by, ok)
        \/ \E t \in issued, j \in Joiners : JoinLoadInvite(p, t, j[1], j[2], ok)
        \/ JoinListRequests(p, ok)
        \/ JoinSaveRequest(p, ok)
        \/ \E id \in 1..MaxRequests, note \in Notes : ApproveLoadRequest(p, id, note, ok)
        \/ ApproveLoadInvite(p, ok)
        \/ ApproveLoadRecipients(p, ok)
        \/ ApproveWriteRecipients(p, ok)
        \/ ApproveSaveRequest(p, ok)
        \/ ApproveSaveInvite(p, ok)
        \/ \E id \in 1..MaxRequests, reason \in Notes : RejectLoadRequest(p, id, reason, ok)
        \/ RejectSaveRequest(p, ok)

SpecFault == Init /\ [][NextFault]_vars

(* approve alone, over the objects a bucket may hold.  The objects are    *)
(* JSON that approve reads without further validation: a request in any   *)
(* status, with a device name or public key that may be blank (join       *)
(* stores the trimmed name, so a blank name in the key's metadata is      *)
(* stored as the empty name); an invite in any status; a registry that is *)
(* absent or holds one entry.                                             *)
RequestStatuses == {RequestStatusPending, RequestStatusApproved, RequestStatusRejected}
InviteStatuses == {InviteStatusActive, InviteStatusUsed, InviteStatusRevoked, ""}
Devices == {[name |-> sBob, key |-> sK1], [name |-> sEmpty, key |-> sK1],
            [name |-> sBob, key |-> sEmpty], [name |-> <<"a", "m", "y">>, key |-> sK2]}

StoredRequest(n, status, d) ==
    [NewJoinRequest(<<>>, [NoInvite EXCEPT !.id = HexId(1)], d.name, d.key,
                    Fingerprint(d.key), n, 1).req EXCEPT !.status = status]

StoredInvite(status) ==
    [NewInvite(1, sAmy, HexId(1), TokenSecret(1), 1).invite EXCEPT !.status = status]

ApproveInit ==
    /\ RegInit
    /\ AuthInit
    /\ recipients \in {AbsentStore,
                       Add(EmptyStore, Recipient(sBob, sK1, Fingerprint(sK1), 1,
                                                 StatusActive, "manual", <<>>), 1).store}
    /\ \E st \in InviteStatuses :
          invites = [n \in 1..MaxInvites |-> IF n = 1 THEN StoredInvite(st) ELSE NoInvite]
    /\ requests \in [1..MaxRequests ->
                        {NoRequest} \cup {StoredRequest(n, st, d) : n \in 1..MaxRequests,
                                                                  st \in RequestStatuses,
                                                                  d \in Devices}]
    /\ \A n \in 1..MaxRequests : requests[n] # NoRequest => requests[n].id = n
    /\ issued = {}
    /\ now = 1
    /\ proc = [p \in Procs |-> IdleProc]
    /\ last = IdleProc
    /\ acked = {}
    /\ call = NoCall

NextApprove ==
    \/ \E p \in {"p1"}, ok \in BOOLEAN :
        \/ \E id \in 1..MaxRequests, note \in Notes : ApproveLoadRequest(p, id, note, ok)
        \/ ApproveLoadInvite(p, ok)
        \/ ApproveLoadRecipients(p, ok)
        \/ ApproveWriteRecipients(p, ok)
        \/ ApproveSaveRequest(p, ok)
        \/ ApproveSaveInvite(p, ok)

SpecApprove == ApproveInit /\ [][NextApprove]_vars

(* recipients add and recipients remove, in processes that interleave     *)
(* between their store calls; WriteRecipients may fail                     *)
NextShared ==
    \/ \E p \in Procs :
        \/ \E name \in AddNames, pub \in AddKeys, note \in Notes :
              RecipientsAddLoad(p, name, pub, note, TRUE)
        \/ \E q \in RemoveQueries : RecipientsRemoveLoad(p, q, FALSE, TRUE)
        \/ \E ok \in BOOLEAN : RecipientsWrite(p, ok)

SpecShared == Init /\ [][NextShared]_vars

(* every command that writes the registry, in processes that interleave   *)
(* between their store calls: recipients add, recipients remove with and  *)
(* without --hard, project init, and enroll approve of two pending        *)
(* requests that are stored with their invite; results are not recorded   *)
WritersInit ==
    /\ RegInit
    /\ AuthInit
    /\ recipients = AbsentStore
    /\ invites = [n \in 1..MaxInvites |->
                     IF n = 1 THEN StoredInvite(InviteStatusActive) ELSE NoInvite]
    /\ requests = [n \in 1..MaxRequests |->
                      IF n = 1 THEN StoredRequest(1, RequestStatusPending,
                                                  [name |-> sBOB, key |-> sK1])
                      ELSE IF n = 2 THEN StoredRequest(2, RequestStatusPending,
                                                       [name |-> sF1, key |-> sK2])
                      ELSE NoRequest]
    /\ issued = {}
    /\ now = 1
    /\ proc = [p \in Procs |-> IdleProc]
    /\ last = Unobserved
    /\ acked = {}
    /\ call = NoCall

NextWriters ==
    \/ \E p \in Procs :
        \/ \E note \in Notes : RecipientsAddLoad(p, sAmy, sK2Pad, note, TRUE)
        \/ \E hard \in BOOLEAN : RecipientsRemoveLoad(p, sBob, hard, TRUE)
        \/ RecipientsWrite(p, TRUE)
        \/ ProjectInitLoad(p, sBob, sK3, TRUE)
        \/ ProjectInitWrite(p, TRUE)
        \/ \E id \in 1..MaxRequests, note \in Notes : ApproveLoadRequest(p, id, note, TRUE)
        \/ ApproveLoadInvite(p, TRUE)
        \/ ApproveLoadRecipients(p, TRUE)
        \/ ApproveWriteRecipients(p, TRUE)
        \/ ApproveSaveRequest(p, TRUE)
        \/ ApproveSaveInvite(p, TRUE)

SpecWriters == WritersInit /\ [][NextWriters]_vars

(* The functions of feature/enroll applied on their own, to arguments     *)
(* drawn from small sets, once each; call holds the arguments and the     *)
(* result.                                                                *)

(* a request as NewJoinRequest makes it for the key's machine, in a status *)
RequestOf(n, inviteId, key, status) ==
    [NewJoinRequest(<<>>, [NoInvite EXCEPT !.id = inviteId], sBob, key,
                    Fingerprint(key), n, 1).req EXCEPT !.status = status]

(* an invite as NewInvite makes it with id HexId(k), in a status and with *)
(* an expiry, which is the zero time when the stored JSON has none        *)
InviteOf(k, status, expires) ==
    [NewInvite(1, sAmy, HexId(k), TokenSecret(k), 1).invite
        EXCEPT !.status = status, !.expires_at = expires]

ExistingChoices(i) ==
    {RequestOf(i, HexId(k), key, st) :
        k \in 1..MaxInvites, key \in {sK1, sK2}, st \in RequestStatuses}

RECURSIVE ExistingLists(_)
ExistingLists(n) ==
    IF n = 0 THEN {<<>>}
    ELSE ExistingLists(n - 1)
         \cup {Append(q, r) : q \in {x \in ExistingLists(n - 1) : Len(x) = n - 1},
                              r \in ExistingChoices(n)}

(* the invites passed to NewJoinRequest: those of InviteOf, and one with  *)
(* a blank id                                                              *)
JoinInvites(st, exp) ==
    {InviteOf(k, st, exp) : k \in 1..MaxInvites}
        \cup {[InviteOf(1, st, exp) EXCEPT !.id = <<" ">>]}

CallNewJoinRequest ==
    /\ call = NoCall
    /\ \E existing \in ExistingLists(MaxExisting), st \in InviteStatuses,
          exp \in {ZeroTime, 2}, key \in {sK1, sK2}, t \in Times :
         \E invite \in JoinInvites(st, exp) :
           /\ call' = [fn |-> "NewJoinRequest", existing |-> existing,
                       invite |-> invite, fingerprint |-> Fingerprint(key),
                       t |-> t,
                       out |-> NewJoinRequest(existing, invite, sBob, key,
                                              Fingerprint(key), MaxExisting + 1, t)]
           /\ UNCHANGED <<regVars, authVars, acked, recipients, invites, requests, issued, now,
                          proc, last>>

CallValidateInviteForJoin ==
    /\ call = NoCall
    /\ \E st \in InviteStatuses, exp \in {ZeroTime} \cup Times, t \in Times :
           /\ call' = [fn |-> "ValidateInviteForJoin", invite |-> InviteOf(1, st, exp),
                       t |-> t, out |-> ValidateInviteForJoin(InviteOf(1, st, exp), t)]
           /\ UNCHANGED <<regVars, authVars, acked, recipients, invites, requests, issued, now,
                          proc, last>>
CallValidateInviteForApproval ==
    /\ call = NoCall
    /\ \E st \in InviteStatuses, exp \in {ZeroTime} \cup Times :
           /\ call' = [fn |-> "ValidateInviteForApproval", invite |-> InviteOf(1, st, exp),
                       out |-> ValidateInviteForApproval(InviteOf(1, st, exp))]
           /\ UNCHANGED <<regVars, authVars, acked, recipients, invites, requests, issued, now,
                          proc, last>>

(* what randomHex and randomTokenSecret may return: hex digits, and the   *)
(* characters of unpadded URL-safe base64                                 *)
RandomIds == {HexId(k) : k \in 1..MaxInvites} \cup {<<"0", "f">>}
RandomSecrets == {TokenSecret(k) : k \in 1..MaxInvites} \cup {<<"-", "_", "A">>}

CallNewInvite ==
    /\ call = NoCall
    /\ \E ttl \in -1..MaxTTL, by \in {sAmy, sEmpty}, id \in RandomIds,
          secret \in RandomSecrets, t \in Times :
           /\ call' = [fn |-> "NewInvite", ttl |-> ttl, createdBy |-> by, t |-> t,
                       out |-> NewInvite(ttl, by, id, secret, t)]
           /\ UNCHANGED <<regVars, authVars, acked, recipients, invites, requests, issued, now,
                          proc, last>>

(* the id and secret portions of the tokens presented to VerifyToken:     *)
(* those that were drawn, with white space around them, empty, and with a *)
(* dot inside                                                              *)
Padded(S) == S \cup {<<" ">> \o x : x \in S} \cup {x \o <<" ">> : x \in S}
IdParts == Padded(RandomIds) \cup {<<>>}
SecretParts == Padded(RandomSecrets) \cup {<<>>, <<"s", ".", "1">>}

CallVerifyToken ==
    /\ call = NoCall
    /\ \E id \in RandomIds, secret \in RandomSecrets, idPart \in IdParts,
          secretPart \in SecretParts :
           LET made == NewInvite(1, sAmy, id, secret, 1)
               token == formatToken(idPart, secretPart)
           IN /\ call' = [fn |-> "VerifyToken", invite |-> made.invite,
                          issued |-> made.token, secret |-> secret,
                          idPart |-> idPart, secretPart |-> secretPart, token |-> token,
                          out |-> VerifyToken(made.invite, token)]
              /\ UNCHANGED <<regVars, authVars, acked, recipients, invites, requests, issued, now,
                             proc, last>>

NextPure ==
    \/ CallNewJoinRequest
    \/ CallValidateInviteForJoin
    \/ CallValidateInviteForApproval
    \/ CallNewInvite
    \/ CallVerifyToken

SpecPure == Init /\ [][NextPure]_vars

----------------------------------------------------------------------------
(* The login store on its own: StartCLILogin, GetPendingCLILogin,         *)
(* IssueCodeForState, ExchangeCode and ValidateAccessToken in every       *)
(* order.                                                                  *)

SpecAuth == Init /\ [][NextAuth]_vars

----------------------------------------------------------------------------
(* C1: every registry reachable from the empty one by Add, Revoke and     *)
(* Delete calls has no two entries with names equal ignoring case, none   *)
(* with the same public key and none with the same fingerprint.           *)

Unique(s) ==
    \A i, j \in 1..Len(s.recipients) :
        i # j => /\ ~EqualFold(s.recipients[i].name, s.recipients[j].name)
                 /\ s.recipients[i].public_key # s.recipients[j].public_key
                 /\ s.recipients[i].fingerprint # s.recipients[j].fingerprint

C1_RegistryUnique == Unique(reg)

(* three entries are stored, one of them revoked, and an Add has just been *)
(* refused as a duplicate                                                  *)
C1_Witness ==
    /\ Len(reg.recipients) = 3
    /\ \E i \in 1..Len(reg.recipients) : reg.recipients[i].status = StatusRevoked
    /\ regOp.op = "Add" /\ regOp.err = ErrDuplicateRecipient

----------------------------------------------------------------------------
(* C2: a stored request whose status is approved or rejected keeps that   *)
(* status in every later step, also when approve and reject commands      *)
(* interleave between their store calls.                                   *)

Decided(r) == r.status \in {RequestStatusApproved, RequestStatusRejected}

C2_DecidedStays ==
    [][\A n \in 1..MaxRequests :
          Decided(requests[n]) => requests'[n].status = requests[n].status]_vars

----------------------------------------------------------------------------
(* C3: no two stored requests that are both pending have the same         *)
(* invite_id, and no two have the same fingerprint, also when joins       *)
(* interleave between ListRequests and SaveRequest.                        *)

Pending(n) == requests[n].status = RequestStatusPending

C3_OnePending ==
    \A n, m \in Stored :
        (n # m /\ Pending(n) /\ Pending(m)) =>
            /\ requests[n].invite_id # requests[m].invite_id
            /\ requests[n].fingerprint # requests[m].fingerprint

----------------------------------------------------------------------------
(* C4: when commands run one at a time and every store call succeeds, no  *)
(* two stored requests with the same invite_id are both approved.  (No    *)
(* command deletes a request, so a request that was ever approved is a    *)
(* stored one.)                                                            *)

Approved(n) == requests[n].status = RequestStatusApproved

C4_OneApprovedPerInvite ==
    \A n, m \in Stored :
        (n # m /\ Approved(n) /\ Approved(m)) =>
            requests[n].invite_id # requests[m].invite_id

(* an invite has an approved request and another request, decided too *)
C4_Witness ==
    \E n, m \in Stored :
        /\ n # m
        /\ requests[n].invite_id = requests[m].invite_id
        /\ Approved(n)
        /\ Decided(requests[m])

----------------------------------------------------------------------------
(* C5: for a stored invite with status used, NewJoinRequest on the         *)
(* reloaded invite fails, for every current time and every list of        *)
(* existing requests.  As stated, the failure is always InviteUsedError;  *)
(* as amended, it is InviteExpiredError when the current time is after    *)
(* the invite's expires_at and InviteUsedError otherwise.                  *)

UsedInvites == {n \in 1..MaxInvites : invites[n].status = InviteStatusUsed}

(* the lists of stored requests, in every order *)
RequestLists ==
    {[i \in 1..Len(q) |-> requests[q[i]]] : q \in UNION {Perms(S) : S \in SUBSET Stored}}

JoinOfUsed(n, t, existing, m) ==
    NewJoinRequest(existing, LoadInvite(HexId(n)).invite, m.meta, m.key,
                   Fingerprint(m.key), 0, t)

C5_UsedInviteRefusedAsUsed ==
    \A n \in UsedInvites, t \in Times, existing \in RequestLists, m \in Machines :
        JoinOfUsed(n, t, existing, m).err = ErrInviteUsed

C5_UsedInviteRefused ==
    \A n \in UsedInvites, t \in Times, existing \in RequestLists, m \in Machines :
        JoinOfUsed(n, t, existing, m).err =
            IF t > invites[n].expires_at THEN ErrInviteExpired ELSE ErrInviteUsed

(* an approval has just stored a used invite, and the invite has expired *)
C5_Witness ==
    /\ last.cmd = "approve" /\ last.err = ErrNil
    /\ \A p \in Procs : Free(p)
    /\ \E n \in UsedInvites : n = inviteKey(last.invite.id) /\ now > invites[n].expires_at

----------------------------------------------------------------------------
(* C6: a stored invite whose status is used has status used after every   *)
(* step, in every interleaving of invite, join, approve and reject.        *)

C6_UsedStays ==
    [][\A n \in 1..MaxInvites :
          invites[n].status = InviteStatusUsed => invites'[n].status = InviteStatusUsed]_vars

(* an invite is used while another approval, which loaded it active, is   *)
(* about to save it                                                        *)
C6_Witness ==
    \E n \in UsedInvites, p \in Procs :
        /\ At(p, "approve", "ap_used")
        /\ proc[p].invite.id = invites[n].id

----------------------------------------------------------------------------
(* C7: the store writes of one approval are, in this order,               *)
(* WriteRecipients, SaveRequest of the approved request and SaveInvite of *)
(* the used invite, and each write but the last issued returned without   *)
(* error.                                                                  *)

ApproveWrites ==
    <<[call |-> "WriteRecipients", status |-> ""],
      [call |-> "SaveRequest", status |-> RequestStatusApproved],
      [call |-> "SaveInvite", status |-> InviteStatusUsed]>>

InOrder(w) ==
    /\ Len(w) <= Len(ApproveWrites)
    /\ \A i \in 1..Len(w) :
          /\ w[i].call = ApproveWrites[i].call
          /\ w[i].status = ApproveWrites[i].status
          /\ i < Len(w) => w[i].ok

C7_WriteOrder ==
    /\ \A p \in Procs : proc[p].cmd = "approve" => InOrder(proc[p].wlog)
    /\ last.cmd = "approve" => InOrder(last.wlog)

(* an approval has returned after its SaveRequest failed *)
C7_Witness ==
    /\ last.cmd = "approve"
    /\ Len(last.wlog) = 2
    /\ ~last.wlog[2].ok

----------------------------------------------------------------------------
(* C8: when commands run one at a time and every store call succeeds, an  *)
(* approve that returns without error and whose Add found no collision    *)
(* leaves the registry it found extended by exactly one entry, which has  *)
(* the request's device_name, public_key and fingerprint, status active   *)
(* and source "enroll-approve"; the request is stored approved and the    *)
(* invite used, with used_by_request_id the request's id.                  *)

Quiet == \A p \in Procs : Free(p)

(* the request and the registry the last command found in the store *)
FoundRequest == last.snap.requests[last.req.id]
FoundRegistry == LoadRecipients(last.snap.recipients).recipients

C8_ApproveAdds ==
    (Quiet /\ last.cmd = "approve" /\ last.err = ErrNil /\ last.addErr = ErrNil) =>
        LET R == FoundRequest
            after == recipients.recipients
            e == after[Len(after)]
            inv == invites[inviteKey(R.invite_id)]
        IN /\ R.status = RequestStatusPending
           /\ Len(after) = Len(FoundRegistry) + 1
           /\ SubSeq(after, 1, Len(FoundRegistry)) = FoundRegistry
           /\ e.name = R.device_name
           /\ e.public_key = R.public_key
           /\ e.fingerprint = R.fingerprint
           /\ e.status = StatusActive
           /\ e.source = "enroll-approve"
           /\ requests[R.id].status = RequestStatusApproved
           /\ inv.status = InviteStatusUsed
           /\ inv.used_by_request_id = R.id

(* an approval has just added a second entry to the registry *)
C8_Witness ==
    /\ Quiet /\ last.cmd = "approve" /\ last.err = ErrNil /\ last.addErr = ErrNil
    /\ Len(recipients.recipients) = 2

----------------------------------------------------------------------------
(* C9: when commands run one at a time and every store call succeeds, an  *)
(* approve of a pending request whose fingerprint is that of a registry   *)
(* entry returns without error, leaves the number of registry entries as  *)
(* it was, and leaves the request stored approved and the invite used.    *)

C9_Case ==
    /\ Quiet /\ last.cmd = "approve"
    /\ last.req.id \in 1..MaxRequests
    /\ FoundRequest.status = RequestStatusPending
    /\ \E i \in 1..Len(FoundRegistry) :
          FoundRegistry[i].fingerprint = FoundRequest.fingerprint

C9_ApproveKnownDevice ==
    C9_Case =>
        /\ last.err = ErrNil
        /\ Len(recipients.recipients) = Len(FoundRegistry)
        /\ requests[FoundRequest.id].status = RequestStatusApproved
        /\ invites[inviteKey(FoundRequest.invite_id)].status = InviteStatusUsed

(* such an approval has just returned *)
C9_Witness == C9_Case /\ last.err = ErrNil /\ Len(FoundRegistry) = 1

----------------------------------------------------------------------------
(* C10: an approve that fails because the request is not pending, because *)
(* the invite is used or not active, or because Add failed with an error  *)
(* other than a duplicate, has issued no store write, and the store is as *)
(* the command found it.                                                   *)

Refusals == {ErrNotPending, ErrInviteUsed, ErrInviteStatus, ErrNameRequired, ErrKeyRequired}

C10_RefusalWritesNothing ==
    (last.cmd = "approve" /\ last.err \in Refusals) =>
        /\ last.wlog = <<>>
        /\ Quiet => /\ recipients = last.snap.recipients
                    /\ invites = last.snap.invites
                    /\ requests = last.snap.requests

(* an approval has just failed in Add, for a request without a public key *)
C10_Witness ==
    /\ Quiet /\ last.cmd = "approve" /\ last.err = ErrKeyRequired
    /\ last.req.status = RequestStatusPending

----------------------------------------------------------------------------
(* C11: an approve that returns without error has issued its three writes *)
(* (the registry, the approved request, the used invite) and each         *)
(* returned without error; an approve one of whose store calls, a load or *)
(* a write, returned an error returns an error.                            *)

AllWritten(w) ==
    /\ Len(w) = Len(ApproveWrites)
    /\ \A i \in 1..Len(w) : w[i].call = ApproveWrites[i].call /\ w[i].ok

C11_SuccessMeansWritten ==
    last.cmd = "approve" =>
        /\ last.err = ErrNil => AllWritten(last.wlog)
        /\ last.failed => last.err # ErrNil

(* an approval has returned an error after its SaveInvite failed *)
C11_Witness ==
    /\ last.cmd = "approve"
    /\ Len(last.wlog) = 3
    /\ ~last.wlog[3].ok
    /\ last.err = ErrStore

----------------------------------------------------------------------------
(* C12: when an approval has stopped after its registry write and before  *)
(* the request was saved (the process stopped, or SaveRequest failed),    *)
(* the request is stored pending and its invite active, and an approve of *)
(* the same request run next, all of whose store calls succeed, returns   *)
(* without error and writes a registry with exactly one entry that has    *)
(* the request's fingerprint.                                              *)

StoppedAfterRegistry ==
    /\ Quiet /\ last.cmd = "approve" /\ last.err # ErrNil
    /\ Len(last.wlog) >= 1 /\ last.wlog[1].ok
    /\ Len(last.wlog) = 1 \/ (Len(last.wlog) = 2 /\ ~last.wlog[2].ok)

(* runEnrollApprove for request n from the current store, every store     *)
(* call succeeding: the error it returns and the registry it writes       *)
RepeatedApprove(n) ==
    LET got == LoadRequest(n)
        inv == LoadInvite(got.req.invite_id)
        out == Add(LoadRecipients(recipients), ApprovedRecipient(got.req, now), now)
    IN [err |-> IF got.err # ErrNil THEN got.err
                ELSE IF got.req.status # RequestStatusPending THEN ErrNotPending
                ELSE IF inv.err # ErrNil THEN inv.err
                ELSE IF ValidateInviteForApproval(inv.invite) # ErrNil
                     THEN ValidateInviteForApproval(inv.invite)
                ELSE IF Fatal(out.err) THEN out.err
                ELSE ErrNil,
        store |-> WriteRecipients(out.store)]

EntriesFor(store, fp) ==
    {i \in 1..Len(store.recipients) : store.recipients[i].fingerprint = fp}

C12_RepeatAfterStop ==
    StoppedAfterRegistry =>
        /\ requests[last.req.id].status = RequestStatusPending
        /\ invites[inviteKey(last.req.invite_id)].status = InviteStatusActive
        /\ RepeatedApprove(last.req.id).err = ErrNil
        /\ Cardinality(EntriesFor(RepeatedApprove(last.req.id).store,
                                  last.req.fingerprint)) = 1

----------------------------------------------------------------------------
(* C13: when commands run one at a time and an approval may stop after    *)
(* any of its writes (its process stops, or a store call fails), no two   *)
(* stored requests with the same invite_id are both approved.              *)

ApprovedFor(id) == {n \in Stored : Approved(n) /\ requests[n].invite_id = id}

C13_OneApprovedAfterStops ==
    \A k \in 1..MaxInvites : Cardinality(ApprovedFor(HexId(k))) <= 1

----------------------------------------------------------------------------
(* C14: the WriteRecipients of a registry command is not guarded: the     *)
(* step that ends the command either fails in the store and writes        *)
(* nothing, or returns without error and stores the registry the command  *)
(* loaded and mutated, whatever another process has stored since.  So two *)
(* commands of different processes can both return without error while    *)
(* the stored registry lacks the mutation of one of them.                  *)

C14_WriteUnguarded ==
    [][\A p \in Procs :
          (proc[p].pc = "ra_write" /\ proc'[p].pc = "idle") =>
              \/ /\ last'.err = ErrStore
                 /\ recipients' = recipients
                 /\ acked' = acked
              \/ /\ last'.err = ErrNil
                 /\ recipients' = WriteRecipients(proc[p].store)
                 /\ acked' = acked \cup {[cmd |-> proc[p].cmd, arg |-> proc[p].name]}]_vars

Named(store, name) ==
    {i \in 1..Len(store.recipients) : EqualFold(store.recipients[i].name, TrimSpace(name))}

(* two adds, and no other command, have returned without error, and the   *)
(* stored registry has no entry with the name of one of them              *)
C14_Witness ==
    /\ Quiet
    /\ Cardinality(acked) = 2
    /\ \A a \in acked : a.cmd = "add"
    /\ \E a \in acked : Named(recipients, a.arg) = {}

----------------------------------------------------------------------------
(* C15: when the list of existing requests holds exactly one pending      *)
(* request, for invite I with fingerprint F, and the invite passed is     *)
(* active and not expired: NewJoinRequest for I with another fingerprint  *)
(* fails with the pending-request-for-invite conflict, for another invite *)
(* with F it fails with the device-pending conflict, and for another      *)
(* invite with another fingerprint it returns a pending request.          *)

PendingIn(existing) ==
    {i \in 1..Len(existing) : existing[i].status = RequestStatusPending}

Usable(invite, t) ==
    /\ TrimSpace(invite.id) # <<>>
    /\ invite.status = InviteStatusActive
    /\ ~(invite.expires_at # ZeroTime /\ t > invite.expires_at)

C15_Case ==
    /\ call.fn = "NewJoinRequest"
    /\ Cardinality(PendingIn(call.existing)) = 1
    /\ Usable(call.invite, call.t)

C15_PendingConflicts ==
    C15_Case =>
        LET r == call.existing[CHOOSE i \in PendingIn(call.existing) : TRUE]
            sameInvite == call.invite.id = r.invite_id
            sameDevice == call.fingerprint = r.fingerprint
        IN /\ sameInvite /\ ~sameDevice => call.out.err = ErrPendingForInvite
           /\ ~sameInvite /\ sameDevice => call.out.err = ErrDevicePending
           /\ ~sameInvite /\ ~sameDevice =>
                 call.out.err = ErrNil /\ call.out.req.status = RequestStatusPending

C15_Witness ==
    /\ C15_Case
    /\ Len(call.existing) = 2
    /\ \E i, j \in 1..2 :
          /\ call.existing[i].status = RequestStatusPending
          /\ call.existing[j].status = RequestStatusApproved
          /\ call.existing[j].invite_id = call.invite.id
          /\ call.existing[i].invite_id # call.invite.id
          /\ call.existing[i].fingerprint # call.fingerprint
    /\ call.out.err = ErrNil
    /\ call.out.req.status = RequestStatusPending

----------------------------------------------------------------------------
(* C16: when commands run one at a time and every store call succeeds, no *)
(* two stored requests have the same invite_id.                           *)

C16_OneRequestPerInvite ==
    \A n, m \in Stored :
        n # m => requests[n].invite_id # requests[m].invite_id

----------------------------------------------------------------------------
(* C17: when commands run one at a time and every store call succeeds, an *)
(* approve of a pending request whose invite is active succeeds, be the   *)
(* invite's expires_at passed or not, and no approve returns "invite      *)
(* expired".                                                               *)

C17_Case ==
    /\ Quiet /\ last.cmd = "approve"
    /\ last.req.id \in 1..MaxRequests
    /\ FoundRequest.status = RequestStatusPending
    /\ last.snap.invites[inviteKey(FoundRequest.invite_id)].status = InviteStatusActive

----------------------------------------------------------------------------
(* C18: for an invite with status active and a time now,                  *)
(* ValidateInviteForJoin succeeds when now is before expires_at or equal  *)
(* to it, and fails with "invite expired" when now is after expires_at.   *)

C18_Case == call.fn = "ValidateInviteForJoin" /\ call.invite.status = InviteStatusActive

----------------------------------------------------------------------------
(* C19: for every ttl > 0 and every created_by, NewInvite returns an      *)
(* invite and a token such that ParseToken of the token gives the         *)
(* invite's id and a non-empty secret, and VerifyToken of the invite and  *)
(* the token succeeds.                                                     *)

C19_Case == call.fn = "NewInvite" /\ call.ttl > 0

C19_TokenRoundTrip ==
    C19_Case =>
        /\ call.out.err = ErrNil
        /\ ParseToken(call.out.token).err = ErrNil
        /\ ParseToken(call.out.token).id = call.out.invite.id
        /\ ParseToken(call.out.token).secret # <<>>
        /\ VerifyToken(call.out.invite, call.out.token) = ErrNil

(* an invite made for a created_by with white space, with a secret that   *)
(* has the characters - and _                                              *)
C19_Witness ==
    /\ C19_Case
    /\ call.createdBy = sAmy
    /\ ParseToken(call.out.token).secret = <<"-", "_", "A">>
    /\ call.out.invite.secret_hash = secretHash(<<"-", "_", "A">>)
    /\ VerifyToken(call.out.invite, call.out.token) = ErrNil

----------------------------------------------------------------------------
(* C20: for an invite and a token made by NewInvite, VerifyToken of the   *)
(* invite and a token whose id portion or whose secret portion is not     *)
(* that of the issued token fails with "invalid invite token".            *)

C20_Case == call.fn = "VerifyToken" /\ call.issued = formatToken(call.invite.id, call.secret)

C20_OtherTokenRefused ==
    (C20_Case /\ (call.idPart # call.invite.id \/ call.secretPart # call.secret)) =>
        call.out = ErrInvalidToken

(* C20 as the code has it: the portions are compared after their leading  *)
(* and trailing white space is removed, so a token that differs from the  *)
(* issued one by such white space only is accepted, and every other token *)
(* is refused.                                                             *)
C20_OtherTokenRefusedAfterTrim ==
    C20_Case =>
        IF TrimSpace(call.idPart) # call.invite.id \/ TrimSpace(call.secretPart) # call.secret
        THEN call.out = ErrInvalidToken
        ELSE call.out = ErrNil

(* a token with another invite's id and the issued secret is refused, *)
(* being well-formed                                                   *)
C20_Witness ==
    /\ C20_Case
    /\ call.idPart \in RandomIds
    /\ call.idPart # call.invite.id
    /\ call.secretPart = call.secret
    /\ ParseToken(call.token).err = ErrNil
    /\ call.out = ErrInvalidToken

----------------------------------------------------------------------------
(* C22: in every registry reachable by Add, Revoke and Delete calls, an   *)
(* Add of a recipient whose trimmed name equals an entry's name ignoring  *)
(* case, or whose trimmed public key or fingerprint equals an entry's,    *)
(* returns the duplicate error and leaves the registry as it was.         *)

AddArgs ==
    {Recipient(name, pub, fp, ZeroTime, "", "manual", <<>>) :
        name \in RegNames, pub \in RegKeys, fp \in RegFingerprints}

Matches(s, r) ==
    \E i \in 1..Len(s.recipients) :
        \/ Fold(s.recipients[i].name) = Fold(TrimSpace(r.name))
        \/ s.recipients[i].public_key = TrimSpace(r.public_key)
        \/ s.recipients[i].fingerprint = TrimSpace(r.fingerprint)

C22_DuplicateRefused ==
    \A r \in AddArgs :
        Matches(reg, r) =>
            Add(reg, r, now) = [store |-> reg, err |-> ErrDuplicateRecipient]

(* C22 as the code has it: the name and the key are tested for being empty *)
(* before the entries are compared, so the duplicate error is that of a    *)
(* matching recipient with a name and a key; one without a name or without *)
(* a key gets the error of that test.  The registry is unchanged in all    *)
(* these cases.                                                            *)
C22_DuplicateRefusedWhenValid ==
    \A r \in AddArgs :
        Matches(reg, r) =>
            /\ Add(reg, r, now).store = reg
            /\ Add(reg, r, now).err =
                  IF TrimSpace(r.name) = <<>> THEN ErrNameRequired
                  ELSE IF TrimSpace(r.public_key) = <<>> THEN ErrKeyRequired
                  ELSE ErrDuplicateRecipient

(* an Add was refused as a duplicate by a registry of two entries *)
C22_Witness ==
    /\ regOp = [op |-> "Add", err |-> ErrDuplicateRecipient]
    /\ Len(reg.recipients) = 2
    /\ \E r \in AddArgs :
          /\ Matches(reg, r)
          /\ ~EqualFold(reg.recipients[1].name, TrimSpace(r.name))
          /\ ~EqualFold(reg.recipients[2].name, TrimSpace(r.name))
          /\ TrimSpace(r.name) # <<>> /\ TrimSpace(r.public_key) # <<>>

----------------------------------------------------------------------------
(* C23: in every registry reachable by Add, Revoke and Delete calls,      *)
(* Revoke and Delete with a query that, trimmed and ignoring case, is no  *)
(* entry's name and no entry's fingerprint return the not-found error and *)
(* leave the registry as it was.                                           *)

Known(s, q) ==
    \E i \in 1..Len(s.recipients) :
        \/ Fold(s.recipients[i].name) = Fold(TrimSpace(q))
        \/ Fold(s.recipients[i].fingerprint) = Fold(TrimSpace(q))

C23_UnknownQueryRefused ==
    \A q \in RegQueries :
        ~Known(reg, q) =>
            /\ Revoke(reg, q) =
                  [store |-> reg, err |-> ErrRecipientNotFound, ret |-> NoRecipient]
            /\ Delete(reg, q) =
                  [store |-> reg, err |-> ErrRecipientNotFound, ret |-> NoRecipient]

(* a Delete was refused by a registry of two entries *)
C23_Witness ==
    /\ regOp = [op |-> "Delete", err |-> ErrRecipientNotFound]
    /\ Len(reg.recipients) = 2
    /\ \E q \in RegQueries : ~Known(reg, q)

----------------------------------------------------------------------------
(* C24: in every registry reachable by Add, Revoke and Delete calls, a    *)
(* Revoke with a query that finds an entry, followed by a Revoke with the *)
(* same query, returns no error either time, and the second call leaves   *)
(* the registry as the first one made it.                                  *)

C24_RevokeTwice ==
    \A q \in RegQueries :
        Known(reg, q) =>
            LET first == Revoke(reg, q)
                second == Revoke(first.store, q)
            IN /\ first.err = ErrNil
               /\ second.err = ErrNil
               /\ second.store = first.store
               /\ second.ret.status = StatusRevoked

(* a Revoke has returned without error, and the registry has a revoked    *)
(* entry beside an active one that a further Revoke leaves as it is       *)
C24_Witness ==
    /\ regOp = [op |-> "Revoke", err |-> ErrNil]
    /\ Len(reg.recipients) = 2
    /\ \E i \in 1..2 : reg.recipients[i].status = StatusActive
    /\ \E q \in RegQueries :
          /\ Known(reg, q)
          /\ Revoke(reg, q).err = ErrNil
          /\ Revoke(reg, q).store = reg

----------------------------------------------------------------------------
(* C25: no Add, Revoke or Delete call makes a revoked entry active: an    *)
(* entry that is revoked before a call is revoked after it if it is still *)
(* in the registry; and an Add of a recipient that matches a revoked      *)
(* entry by name, public key or fingerprint returns the duplicate error.  *)

RevokedNames(s) ==
    {s.recipients[i].name : i \in {j \in 1..Len(s.recipients) :
                                      s.recipients[j].status = StatusRevoked}}

StaysRevoked ==
    \A j \in 1..Len(reg'.recipients) :
        reg'.recipients[j].name \in RevokedNames(reg) =>
            reg'.recipients[j].status = StatusRevoked

MatchesRevoked(s, r) ==
    \E i \in 1..Len(s.recipients) :
        /\ s.recipients[i].status = StatusRevoked
        /\ \/ Fold(s.recipients[i].name) = Fold(TrimSpace(r.name))
           \/ s.recipients[i].public_key = TrimSpace(r.public_key)
           \/ s.recipients[i].fingerprint = TrimSpace(r.fingerprint)

C25_NoReactivation ==
    /\ [][StaysRevoked]_vars
    /\ [](\A r \in AddArgs :
             MatchesRevoked(reg, r) =>
                 Add(reg, r, now) = [store |-> reg, err |-> ErrDuplicateRecipient])

(* C25 as the code has it: the Add that matches a revoked entry is        *)
(* refused and leaves the registry as it was, with the duplicate error    *)
(* when it has a name and a key, and with the error for the missing name  *)
(* or key otherwise.                                                       *)
C25_NoReactivationAddRefused ==
    /\ [][StaysRevoked]_vars
    /\ [](\A r \in AddArgs :
             MatchesRevoked(reg, r) =>
                 /\ Add(reg, r, now).store = reg
                 /\ Add(reg, r, now).err =
                       IF TrimSpace(r.name) = <<>> THEN ErrNameRequired
                       ELSE IF TrimSpace(r.public_key) = <<>> THEN ErrKeyRequired
                       ELSE ErrDuplicateRecipient)

(* an Add was refused as a duplicate by a registry whose only entry is    *)
(* revoked                                                                 *)
C25_Witness ==
    /\ regOp = [op |-> "Add", err |-> ErrDuplicateRecipient]
    /\ Len(reg.recipients) = 1
    /\ reg.recipients[1].status = StatusRevoked

----------------------------------------------------------------------------
(* C21: every invite object in the store, written by enroll invite or by  *)
(* enroll approve, has the fields of Invite and no other, its secret_hash *)
(* is the hash of the secret drawn for it, and none of its text fields is *)
(* the secret; no request object has the secret in a text field; the      *)
(* secret is in the token that enroll invite printed.                     *)

InviteFields ==
    {"version", "id", "secret_hash", "status", "created_at", "expires_at",
     "created_by", "used_by_request_id", "used_at"}

StoredInvites == {n \in 1..MaxInvites : invites[n] # NoInvite}

C21_SecretNotStored ==
    \A n \in StoredInvites :
        /\ DOMAIN invites[n] = InviteFields
        /\ invites[n].secret_hash = secretHash(TokenSecret(n))
        /\ \A f \in {"id", "secret_hash", "created_by"} : invites[n][f] # TokenSecret(n)
        /\ \A m \in Stored :
              \A f \in {"invite_id", "decision_note", "device_name", "public_key",
                        "fingerprint"} : requests[m][f] # TokenSecret(n)
        /\ formatToken(invites[n].id, TokenSecret(n)) \in issued

(* an invite that approve has written, beside one that invite has written *)
C21_Witness ==
    /\ Quiet
    /\ \E n, m \in StoredInvites :
          /\ invites[n].status = InviteStatusUsed
          /\ invites[m].status = InviteStatusActive
          /\ ParseToken(formatToken(invites[n].id, TokenSecret(n))).secret = TokenSecret(n)

----------------------------------------------------------------------------
(* C26: when commands run one at a time and every store call succeeds, a  *)
(* reject of a pending request returns no error and has issued one write, *)
(* of that request with status rejected, decision_at set and              *)
(* decision_note the trimmed reason, and the registry, the invites and    *)
(* the other requests are as the command found them; a reject of a        *)
(* request that is not pending returns an error, has issued no write and  *)
(* leaves the store as it found it.                                        *)

C26_Case == Quiet /\ last.cmd = "reject" /\ last.req.id \in 1..MaxRequests

C26_RejectWritesRequestOnly ==
    C26_Case =>
        LET R == FoundRequest IN
        IF R.status = RequestStatusPending
        THEN /\ last.err = ErrNil
             /\ Len(last.wlog) = 1
             /\ last.wlog[1] = [call |-> "SaveRequest", status |-> RequestStatusRejected,
                                ok |-> TRUE]
             /\ requests =
                   [last.snap.requests EXCEPT
                       ![R.id] = [R EXCEPT !.status = RequestStatusRejected,
                                           !.decision_at = requests[R.id].decision_at,
                                           !.decision_note = TrimSpace(last.note)]]
             /\ requests[R.id].decision_at \in R.created_at..now
             /\ requests[R.id].decision_at # ZeroTime
             /\ recipients = last.snap.recipients
             /\ invites = last.snap.invites
        ELSE /\ last.err = ErrNotPending
             /\ last.wlog = <<>>
             /\ requests = last.snap.requests
             /\ recipients = last.snap.recipients
             /\ invites = last.snap.invites

(* a pending request was rejected with a reason that has white space      *)
(* around it, another request being stored                                 *)
C26_Witness ==
    /\ C26_Case
    /\ FoundRequest.status = RequestStatusPending
    /\ last.err = ErrNil
    /\ last.note = sNote
    /\ Cardinality(Stored) = 2

----------------------------------------------------------------------------
(* C27: ValidateInviteForJoin and ValidateInviteForApproval both return   *)
(* "invite already used" for status used and the status error for any     *)
(* other status that is neither empty nor active, whatever the expiry;    *)
(* for status active and for the empty status ValidateInviteForApproval   *)
(* returns no error, and ValidateInviteForJoin none but "invite expired". *)

StatusOutcome(invite) ==
    IF invite.status = InviteStatusUsed THEN ErrInviteUsed
    ELSE IF invite.status \in {"", InviteStatusActive} THEN ErrNil
    ELSE ErrInviteStatus

C27_StatusDecision ==
    /\ call.fn = "ValidateInviteForApproval" => call.out = StatusOutcome(call.invite)
    /\ call.fn = "ValidateInviteForJoin" =>
          IF StatusOutcome(call.invite) # ErrNil
          THEN call.out = StatusOutcome(call.invite)
          ELSE call.out \in {ErrNil, ErrInviteExpired}

(* a used invite past its expires_at is refused by join as used *)
C27_Witness ==
    /\ call.fn = "ValidateInviteForJoin"
    /\ call.invite.status = InviteStatusUsed
    /\ call.invite.expires_at # ZeroTime
    /\ call.t > call.invite.expires_at
    /\ call.out = ErrInviteUsed

----------------------------------------------------------------------------
(* C28: NewInvite returns an error exactly when ttl <= 0, and then no     *)
(* invite and no token; otherwise the invite has status active, no        *)
(* used_by_request_id, created_at the time of the call and expires_at =   *)
(* created_at + ttl, which is after created_at.                            *)

C28_NewInvite ==
    call.fn = "NewInvite" =>
        /\ call.out.err # ErrNil <=> call.ttl <= 0
        /\ call.ttl <= 0 =>
              call.out = [invite |-> NoInvite, token |-> <<>>, err |-> ErrTTL]
        /\ call.ttl > 0 =>
              /\ call.out.invite.status = InviteStatusActive
              /\ call.out.invite.used_by_request_id = NoInvite.used_by_request_id
              /\ call.out.invite.used_at = ZeroTime
              /\ call.out.invite.created_at = call.t
              /\ call.out.invite.expires_at = call.out.invite.created_at + call.ttl
              /\ call.out.invite.expires_at > call.out.invite.created_at

(* the call with a ttl of zero *)
C28_Witness ==
    /\ call.fn = "NewInvite"
    /\ call.ttl = 0
    /\ call.out.err = ErrTTL

----------------------------------------------------------------------------
(* C29: NewJoinRequest returns the error of the first of these tests that *)
(* fails: the invite is expired, the invite is used, the invite has       *)
(* another status that is not active, a pending request exists for the    *)
(* invite, a pending request exists for the fingerprint; it returns a     *)
(* request when none fails, and no request with an error.                 *)

ExpiredAt(invite, t) == invite.expires_at # ZeroTime /\ t > invite.expires_at

PendingFor(existing, P(_)) ==
    {i \in 1..Len(existing) : existing[i].status = RequestStatusPending /\ P(existing[i])}

FirstFailure(existing, invite, fingerprint, t) ==
    LET forInvite(r) == r.invite_id = invite.id
        forDevice(r) == r.fingerprint = TrimSpace(fingerprint)
    IN IF ExpiredAt(invite, t) THEN ErrInviteExpired
       ELSE IF invite.status = InviteStatusUsed THEN ErrInviteUsed
       ELSE IF invite.status \notin {"", InviteStatusActive} THEN ErrInviteStatus
       ELSE IF PendingFor(existing, forInvite) # {} THEN ErrPendingForInvite
       ELSE IF PendingFor(existing, forDevice) # {} THEN ErrDevicePending
       ELSE ErrNil

Minted(out) ==
    IF out.err = ErrNil THEN out.req.status = RequestStatusPending
    ELSE out.req = NoRequest

C29_CheckOrder ==
    call.fn = "NewJoinRequest" =>
        /\ call.out.err = FirstFailure(call.existing, call.invite, call.fingerprint, call.t)
        /\ Minted(call.out)

(* C29 as the code has it: a blank invite id is refused before the other  *)
(* tests, and the two pending tests are made request by request in list   *)
(* order, so the error is that of the first pending request that is for   *)
(* the invite or for the fingerprint, the invite's error when it is for   *)
(* both.                                                                   *)
FirstFailureInListOrder(existing, invite, fingerprint, t) ==
    LET forInvite(r) == r.invite_id = invite.id
        forDevice(r) == r.fingerprint = TrimSpace(fingerprint)
        forEither(r) == forInvite(r) \/ forDevice(r)
        hits == PendingFor(existing, forEither)
    IN IF TrimSpace(invite.id) = <<>> THEN ErrInviteIdRequired
       ELSE IF ExpiredAt(invite, t) THEN ErrInviteExpired
       ELSE IF invite.status = InviteStatusUsed THEN ErrInviteUsed
       ELSE IF invite.status \notin {"", InviteStatusActive} THEN ErrInviteStatus
       ELSE IF hits = {} THEN ErrNil
       ELSE IF \E i \in hits : forInvite(existing[i]) /\ \A j \in hits : i <= j
            THEN ErrPendingForInvite
       ELSE ErrDevicePending

C29_CheckOrderInList ==
    call.fn = "NewJoinRequest" =>
        /\ call.out.err =
              FirstFailureInListOrder(call.existing, call.invite, call.fingerprint, call.t)
        /\ Minted(call.out)

(* the list has a pending request for the fingerprint before a pending    *)
(* request for the invite, and the call returns the device's conflict     *)
C29_Witness ==
    /\ call.fn = "NewJoinRequest"
    /\ Len(call.existing) = 2
    /\ call.existing[1].status = RequestStatusPending
    /\ call.existing[1].fingerprint = call.fingerprint
    /\ call.existing[1].invite_id # call.invite.id
    /\ call.existing[2].status = RequestStatusPending
    /\ call.existing[2].invite_id = call.invite.id
    /\ call.existing[2].fingerprint # call.fingerprint
    /\ call.out.err = ErrDevicePending

----------------------------------------------------------------------------
(* C30: in every registry reachable by Add, Revoke and Delete calls, a    *)
(* Revoke with a query that finds an entry sets the status of the first   *)
(* entry whose name or fingerprint is the trimmed query ignoring case,    *)
(* and changes no other field and no other entry; a Delete removes that   *)
(* entry and keeps the other entries in their order.                       *)

KnownAt(s, q) ==
    {i \in 1..Len(s.recipients) :
        \/ Fold(s.recipients[i].name) = Fold(TrimSpace(q))
        \/ Fold(s.recipients[i].fingerprint) = Fold(TrimSpace(q))}

FirstKnown(s, q) == CHOOSE i \in KnownAt(s, q) : \A j \in KnownAt(s, q) : i <= j

C30_RevokeDeleteFrame ==
    \A q \in RegQueries :
        KnownAt(reg, q) # {} =>
            LET k == FirstKnown(reg, q)
                old == reg.recipients
                revoked == Revoke(reg, q)
                deleted == Delete(reg, q)
            IN /\ revoked.err = ErrNil
               /\ revoked.store.version = reg.version
               /\ Len(revoked.store.recipients) = Len(old)
               /\ \A i \in 1..Len(old) :
                     revoked.store.recipients[i] =
                        IF i = k THEN [old[i] EXCEPT !.status = StatusRevoked] ELSE old[i]
               /\ revoked.ret = [old[k] EXCEPT !.status = StatusRevoked]
               /\ deleted.err = ErrNil
               /\ deleted.store.version = reg.version
               /\ Len(deleted.store.recipients) = Len(old) - 1
               /\ \A i \in 1..(Len(old) - 1) :
                     deleted.store.recipients[i] = IF i < k THEN old[i] ELSE old[i + 1]
               /\ deleted.ret = old[k]

(* a Revoke has returned without error in a registry where a query is the *)
(* fingerprint of the first entry and the name of the second, and only    *)
(* the first is revoked                                                    *)
C30_Witness ==
    /\ regOp = [op |-> "Revoke", err |-> ErrNil]
    /\ Len(reg.recipients) = 2
    /\ \E q \in RegQueries : KnownAt(reg, q) = {1, 2}
    /\ reg.recipients[1].status = StatusRevoked
    /\ reg.recipients[2].status = StatusActive

----------------------------------------------------------------------------
(* C31: for an invite whose id is not empty and a time now,               *)
(* ValidateInviteForJoin returns no error exactly when NewJoinRequest,    *)
(* called at that time with the invite and no existing requests, returns  *)
(* none.                                                                   *)

C31_Case == call.fn = "NewJoinRequest" /\ call.existing = <<>>

----------------------------------------------------------------------------
(* C32: when commands run one at a time and every store call succeeds,    *)
(* after an approve that returned no error for a request, the stored      *)
(* registry has an active entry with the request's public key.            *)

C32_ApprovedIsRecipient ==
    (Quiet /\ last.cmd = "approve" /\ last.err = ErrNil) =>
        \E i \in 1..Len(recipients.recipients) :
            /\ recipients.recipients[i].public_key = last.req.public_key
            /\ recipients.recipients[i].status = StatusActive

----------------------------------------------------------------------------
(* C33: when commands run one at a time, store calls may fail and an      *)
(* approval may stop after any of its writes, every stored invite with    *)
(* status used has a used_by_request_id that is the id of a stored        *)
(* request with status approved and with the invite's id as invite_id.    *)

C33_UsedNamesApproved ==
    \A n \in StoredInvites :
        invites[n].status = InviteStatusUsed =>
            LET m == invites[n].used_by_request_id
            IN /\ m \in Stored
               /\ Approved(m)
               /\ requests[m].invite_id = invites[n].id

(* an invite is used, and the approval of a request of another invite has *)
(* stopped between its write of the request and its write of the invite   *)
C33_Witness ==
    /\ Quiet
    /\ \E n, k \in StoredInvites :
          /\ invites[n].status = InviteStatusUsed
          /\ invites[k].status = InviteStatusActive
          /\ ApprovedFor(invites[k].id) # {}

----------------------------------------------------------------------------
(* C34: when recipients add, recipients remove, project init and enroll   *)
(* approve run in processes that interleave between their store calls,    *)
(* starting with no registry stored, the stored registry never has two    *)
(* entries with names equal ignoring case, with the same public key or    *)
(* with the same fingerprint.                                              *)

C34_WrittenRegistryUnique == Unique(LoadRecipients(recipients))

(* the stored registry has entries written by two kinds of command, and a *)
(* process that loaded another registry is about to write its own         *)
C34_Witness ==
    /\ Len(recipients.recipients) >= 2
    /\ \E i, j \in 1..Len(recipients.recipients) :
          recipients.recipients[i].source # recipients.recipients[j].source
    /\ \E p \in Procs :
          /\ proc[p].pc \in {"ra_write", "pi_write", "ap_write"}
          /\ \E i \in 1..Len(recipients.recipients) :
                \A j \in 1..Len(proc[p].store.recipients) :
                    proc[p].store.recipients[j].public_key
                        # recipients.recipients[i].public_key

----------------------------------------------------------------------------
(* C35: in every registry reachable by Add, Revoke and Delete calls,      *)
(* after a Delete with a query that finds an entry, no entry's name or    *)
(* fingerprint is the trimmed query ignoring case, and a Revoke and a     *)
(* Delete with the same query return the not-found error.                 *)

C35_DeletedIsGone ==
    \A q \in RegQueries :
        Known(reg, q) =>
            LET after == Delete(reg, q).store
            IN /\ Delete(reg, q).err = ErrNil
               /\ ~Known(after, q)
               /\ Revoke(after, q).err = ErrRecipientNotFound
               /\ Delete(after, q).err = ErrRecipientNotFound

(* C35, restricted to a query that exactly one entry answers to: the      *)
(* lookup stops at the first entry whose name or fingerprint is the       *)
(* trimmed query ignoring case, and Delete removes that entry alone, so   *)
(* when no second entry answers to the query the Delete leaves none that  *)
(* does, and a Revoke and a Delete that follow return the not-found       *)
(* error; when a second entry answers to it, that entry is still there.   *)
C35_DeletedIsGoneWhenAlone ==
    \A q \in RegQueries :
        Known(reg, q) =>
            LET after == Delete(reg, q).store
            IN /\ Delete(reg, q).err = ErrNil
               /\ Cardinality(KnownAt(after, q)) = Cardinality(KnownAt(reg, q)) - 1
               /\ Cardinality(KnownAt(reg, q)) = 1 =>
                    /\ ~Known(after, q)
                    /\ Revoke(after, q).err = ErrRecipientNotFound
                    /\ Delete(after, q).err = ErrRecipientNotFound

C35_Witness ==
    /\ regOp.op = "Delete"
    /\ regOp.err = ErrNil
    /\ Len(reg.recipients) >= 1
    /\ \E q \in RegQueries :
        /\ Cardinality(KnownAt(reg, q)) = 1
        /\ Delete(reg, q).err = ErrNil
        /\ Len(Delete(reg, q).store.recipients) = Len(reg.recipients) - 1
        /\ Delete(Delete(reg, q).store, q).err = ErrRecipientNotFound

----------------------------------------------------------------------------
(* C36: in every order of MemoryStore calls, no two ExchangeCode calls    *)
(* that returned a token were given the same code, and an ExchangeCode    *)
(* call given a code the store issued returns a token, ErrInvalidCode or  *)
(* ErrCodeExpired.                                                        *)

IssuedCodes == {memLog.issued[i].code : i \in DOMAIN memLog.issued}
GrantsOf(code) == {i \in DOMAIN memLog.grants : memLog.grants[i].code = code}

----------------------------------------------------------------------------
(* C37: for every pending login that StartCLILogin created, at most one   *)
(* ExchangeCode call has returned a token for a code that                 *)
(* IssueCodeForState issued for that login's state.                       *)

CodesFor(state) ==
    {memLog.issued[j].code : j \in {k \in DOMAIN memLog.issued : memLog.issued[k].state = state}}
GrantsFor(state) == {i \in DOMAIN memLog.grants : memLog.grants[i].code \in CodesFor(state)}

C37_OneTokenPerLogin ==
    \A i \in DOMAIN memLog.started :
        Cardinality(GrantsFor(memLog.started[i].state)) <= 1

----------------------------------------------------------------------------
(* C38: a ValidateAccessToken call for a token that is in the store, made *)
(* at a time after the token's ExpiresAt, returns ErrTokenExpired; a      *)
(* GetPendingCLILogin call for a state that is in the store, made at a    *)
(* time after the pending login's ExpiresAt, returns                      *)
(* ErrPendingLoginExpired.                                                *)

C38_Step ==
    /\ (/\ MemValidateAccessToken
        /\ memOp'.key \in DOMAIN mem.accessTokens
        /\ After(memOp'.t, mem.accessTokens[memOp'.key].expires_at))
            => memOp'.err = ErrTokenExpired
    /\ (/\ MemGetPendingCLILogin
        /\ memOp'.key \in DOMAIN mem.pending
        /\ After(memOp'.t, mem.pending[memOp'.key].expires_at))
            => memOp'.err = ErrPendingLoginExpired

C38_ExpiredNotMissing == [][C38_Step]_vars

====
